---- MODULE Spec2Model ----
(***************************************************************************)
(* Model of the WASudoku logical solver (wasudoku-wasm/src/logical_solver) *)
(*                                                                         *)
(* A candidate bitmask (u16, bit d-1 <=> digit d) is modelled as the set   *)
(* of digits whose bit is set: m & n is \cap, m | n is \cup, !m is the     *)
(* complement in 1..9, count_ones is Cardinality, trailing_zeros+1 is the  *)
(* least element.  Arrays indexed 0..80 are functions on 0..80; Vec values *)
(* are sequences (1-based); Option<SolvingStep>::None is NoStep.           *)
(***************************************************************************)
EXTENDS Integers, Sequences, FiniteSets, TLC

VARIABLES
  board,      \* the LogicalBoard of the current run: [cells, candidates]
  steps,      \* Vec<SolvingStep> accumulated by the current run
  pc,         \* "start" (board not built), "loop", "done"; "list" while a caller
              \* writes a step list by hand
  input,      \* the Board handed to the current call (81 digits, 0 = empty)
  gid,        \* which input grid of Grids the behaviour started from
  PEER_MAP,   \* the lazily initialised peer table of the process
  phase,      \* "first" call of solve_with_steps, "again" (call on its result grid),
              \* "fresh" (same grid, new process), "edited" (call on an overwritten
              \* grid), "direct" (a caller drives a board built by from_board),
              \* "literal" (a caller drives a board whose fields it has written)
  prevSteps,  \* the step list returned by the first call
  prevBoard,  \* the board the first call ended with
  call,       \* the last direct call on the board: [op, index, value, ret] and
              \* the board it was made on (before)
  ops,        \* number of direct calls that have acted on the board
  stats       \* the DifficultyStats analyze_difficulty returned for `steps`

vars == <<board, steps, pc, input, gid, PEER_MAP, phase, prevSteps, prevBoard, call, ops, stats>>

(***************************************************************************)
(* Bounds                                                                  *)
(***************************************************************************)
NumGrids == 7       \* input grids given to solve_with_steps
NumBoardGrids == 2  \* input grids a caller builds a LogicalBoard from
MaxOps == 2         \* direct calls made on such a board

\* the cells and digits the caller of solve_with_steps overwrites in a grid
SampleCells == {0, 1}
SampleDigits == {1, 6}

\* the calls <<index, value>> of set_cell that are made
SetCalls == {<<0, 1>>, <<0, 2>>, <<1, 7>>}

\* the writes a caller makes through the pub fields of a LogicalBoard:
\* <<index, digit>> for cells, <<index, candidate set>> for candidates
CellWrites == {<<0, 5>>}
CandidateWrites == {<<1, {5}>>}

Cells == 0..80
Digits == 1..9

(***************************************************************************)
(* Geometry tables (mod.rs lazy_static block)                              *)
(***************************************************************************)
ALL_CANDIDATES == 1..9

ROW_UNITS == [i \in 0..8 |-> [j \in 1..9 |-> i * 9 + (j - 1)]]

COL_UNITS == [i \in 0..8 |-> [j \in 1..9 |-> (j - 1) * 9 + i]]

BOX_UNITS ==
  [i \in 0..8 |->
     [j \in 1..9 |-> (((i \div 3) * 3) + ((j - 1) \div 3)) * 9
                       + (((i % 3) * 3) + ((j - 1) % 3))]]

\* 27 units: rows, then columns, then boxes (1-based sequence)
ALL_UNITS ==
  [u \in 1..27 |-> IF u <= 9 THEN ROW_UNITS[u - 1]
                   ELSE IF u <= 18 THEN COL_UNITS[u - 10]
                   ELSE BOX_UNITS[u - 19]]

\* The HashSet of peers built for cell i before it is collected into a Vec
PeerSet(i) ==
  LET row == i \div 9
      col == i % 9
      start_row == (row \div 3) * 3
      start_col == (col \div 3) * 3
  IN  ({row * 9 + c : c \in 0..8}
        \cup {r * 9 + col : r \in 0..8}
        \cup {(start_row + ro) * 9 + (start_col + co) : ro \in 0..2, co \in 0..2})
      \ {i}

PEER_SETS == [i \in Cells |-> PeerSet(i)]

\* Every table the build can produce: the Vec of cell i is the HashSet of its
\* peers collected in the iteration order of that set, which is any order of
\* its 20 elements, chosen per set and per process.
PeerMaps ==
  {pm \in [Cells -> Seq(Cells)] :
     \A i \in Cells :
       /\ Len(pm[i]) = 20
       /\ {pm[i][k] : k \in 1..20} = PEER_SETS[i]}

CellsAsc == [k \in 1..81 |-> k - 1]

\* Exploration bound: PeerMaps has (20!)^81 elements, so the specifications
\* that are explored visit the tables named here; Init and NewProcess
\* themselves allow every table of PeerMaps.
SampleTables == {1, 2}

\* the multiplier that scatters the set of cell i in sampled table t: the
\* lists of one table follow no common order of the cells
HashMul(t, i) == 1 + ((i * (4 * t + 3) + 26 * t - 23) % 82)

\* a walk over 82 slots; slot k holds ((k * mul) % 83) - 1
HashSlots(mul) == [k \in 1..82 |-> ((k * mul) % 83) - 1]

SampleTable(t) ==
  [i \in Cells |-> SelectSeq(HashSlots(HashMul(t, i)), LAMBDA c : c \in PEER_SETS[i])]

SampledPeerMaps == {SampleTable(t) : t \in SampleTables}

Contains(seq, x) == \E k \in 1..Len(seq) : seq[k] = x

(***************************************************************************)
(* Small helpers for the bit operations                                    *)
(***************************************************************************)
MinOf(S) == CHOOSE x \in S : \A y \in S : x <= y

DigitSeq == [k \in 1..9 |-> k]

\* mask_to_vec: the digits of a mask in ascending order
mask_to_vec(mask) == SelectSeq(DigitSeq, LAMBDA num : num \in mask)

NoStep == [technique |-> "None", placements |-> <<>>, eliminations |-> <<>>, cause |-> <<>>]

SolvingStep(t, p, e, c) == [technique |-> t, placements |-> p, eliminations |-> e, cause |-> c]

Elimination(i, v) == [index |-> i, value |-> v]

Placement(i, v) == [index |-> i, value |-> v]

CauseCell(i, cs) == [index |-> i, candidates |-> cs]

HasCand(b, i, d) == b.cells[i] = 0 /\ d \in b.candidates[i]

\* `for k in lo..=hi { if let Some(step) = f(k) { return Some(step); } } None`,
\* f given as the function from the loop range to the results of the loop body
FirstSome(f) ==
  LET S == {k \in DOMAIN f : f[k] # NoStep}
  IN IF S = {} THEN NoStep ELSE f[MinOf(S)]

\* the concatenation f[1] \o ... \o f[n]: a Vec filled by pushes in loop order
FlatSeq(f) ==
  LET n == Cardinality(DOMAIN f)
      cat[k \in 0..n] == IF k = 0 THEN <<>> ELSE cat[k - 1] \o f[k]
  IN cat[n]

\* a Vec of eliminations (idx, num) for the cells idx of the sequence cs
ElimsOf_num(cs, num) == [k \in 1..Len(cs) |-> Elimination(cs[k], num)]

\* a Vec of eliminations (idx, v) for the digits v of the sequence vals
ElimsOf(idx, vals) == [k \in 1..Len(vals) |-> Elimination(idx, vals[k])]

(***************************************************************************)
(* LogicalBoard (mod.rs)                                                   *)
(***************************************************************************)
\* a mutation of eliminate_from_peers: the shift is off by one, the bit of
\* value + 1 is cleared
eliminate_from_peers_next_bit(b, index, value) ==
  [b EXCEPT !.candidates =
     [p \in Cells |-> IF Contains(PEER_MAP[index], p)
                      THEN b.candidates[p] \ {value + 1}
                      ELSE b.candidates[p]]]

\* a mutation of eliminate_from_peers: the mask is assigned to the peer
\* (= in place of &=), so that the peer gets every digit but `value`
eliminate_from_peers_assigns(b, index, value) ==
  [b EXCEPT !.candidates =
     [p \in Cells |-> IF Contains(PEER_MAP[index], p)
                      THEN ALL_CANDIDATES \ {value}
                      ELSE b.candidates[p]]]

\* eliminate_from_peers: clear bit `value` in every peer of `index`
eliminate_from_peers(b, index, value) ==
  [b EXCEPT !.candidates =
     [p \in Cells |-> IF Contains(PEER_MAP[index], p)
                      THEN b.candidates[p] \ {value}
                      ELSE b.candidates[p]]]

\* from_board: seed empty cells with all candidates, then call
\* eliminate_from_peers(i, cells[i]) for every pre-filled cell i.  Each call
\* only clears bit cells[i] in the cells listed in PEER_MAP[i], so after the
\* loop cell p has lost exactly the values of the filled cells i whose peer
\* list contains p.
\* a mutation of from_board: every cell is seeded with all candidates, the
\* filled ones too
from_board_seeds_filled(grid) ==
  LET cells == [i \in Cells |-> grid[i + 1]]
      cleared(p) == {cells[i] : i \in {j \in Cells : cells[j] # 0 /\ Contains(PEER_MAP[j], p)}}
  IN [cells |-> cells,
      candidates |-> [p \in Cells |-> ALL_CANDIDATES \ cleared(p)]]

from_board(grid) ==
  LET cells == [i \in Cells |-> grid[i + 1]]
      seeded == [i \in Cells |-> IF cells[i] = 0 THEN ALL_CANDIDATES ELSE {}]
      cleared(p) == {cells[i] : i \in {j \in Cells : cells[j] # 0 /\ Contains(PEER_MAP[j], p)}}
  IN [cells |-> cells,
      candidates |-> [p \in Cells |-> seeded[p] \ cleared(p)]]

\* a mutation of set_cell: the candidate set of the cell is not zeroed
set_cell_keeps_candidates(b, index, value) ==
  IF b.cells[index] # 0 THEN [ok |-> FALSE, board |-> b]
  ELSE [ok |-> TRUE,
        board |-> eliminate_from_peers([b EXCEPT !.cells[index] = value], index, value)]

\* a mutation of set_cell: the guard on an already filled cell is missing
set_cell_unguarded(b, index, value) ==
  [ok |-> b.cells[index] = 0,
   board |-> eliminate_from_peers(
               [b EXCEPT !.cells[index] = value, !.candidates[index] = {}],
               index, value)]

\* set_cell: the returned bool and the board after the call
set_cell(b, index, value) ==
  IF b.cells[index] # 0 THEN [ok |-> FALSE, board |-> b]
  ELSE [ok |-> TRUE,
        board |-> eliminate_from_peers(
                    [b EXCEPT !.cells[index] = value, !.candidates[index] = {}],
                    index, value)]

(***************************************************************************)
(* basic.rs                                                                *)
(***************************************************************************)
collect_peer_eliminations(b, index, value) ==
  LET keep == SelectSeq(PEER_MAP[index], LAMBDA p : HasCand(b, p, value))
  IN [k \in 1..Len(keep) |-> Elimination(keep[k], value)]

\* a mutation of find_naked_single: the scan keeps the last hit, not the first
find_naked_single_last(b) ==
  LET hits == {i \in Cells : b.cells[i] = 0 /\ Cardinality(b.candidates[i]) = 1}
  IN IF hits = {} THEN NoStep
     ELSE LET i == CHOOSE x \in hits : \A y \in hits : y <= x
              value == MinOf(b.candidates[i])
          IN SolvingStep("NakedSingle", <<Placement(i, value)>>,
                         collect_peer_eliminations(b, i, value), <<>>)

find_naked_single(b) ==
  LET hits == {i \in Cells : b.cells[i] = 0 /\ Cardinality(b.candidates[i]) = 1}
  IN IF hits = {} THEN NoStep
     ELSE LET i == MinOf(hits)
              value == MinOf(b.candidates[i])
          IN SolvingStep("NakedSingle", <<Placement(i, value)>>,
                         collect_peer_eliminations(b, i, value), <<>>)

\* find_unique_position_in_group: the positions (1..9) of the unit holding num
unit_positions(b, group, num) == {k \in 1..9 : HasCand(b, group[k], num)}

\* a mutation of find_hidden_single_in_group: the other candidates of the
\* target cell are not eliminated
find_hidden_single_in_group_peers_only(b, group) ==
  LET nums == {num \in Digits : Cardinality(unit_positions(b, group, num)) = 1}
  IN IF nums = {} THEN NoStep
     ELSE LET num == MinOf(nums)
              target_idx == group[MinOf(unit_positions(b, group, num))]
          IN SolvingStep("HiddenSingle", <<Placement(target_idx, num)>>,
                         collect_peer_eliminations(b, target_idx, num), <<>>)

\* find_hidden_single_in_group that takes the first place of a digit with
\* one or two places in the group
find_hidden_single_in_group_first_place(b, group) ==
  LET nums == {num \in Digits : Cardinality(unit_positions(b, group, num)) \in {1, 2}}
  IN IF nums = {} THEN NoStep
     ELSE LET num == MinOf(nums)
              target_idx == group[MinOf(unit_positions(b, group, num))]
              other_cands == b.candidates[target_idx] \ {num}
          IN SolvingStep("HiddenSingle", <<Placement(target_idx, num)>>,
                         collect_peer_eliminations(b, target_idx, num)
                           \o ElimsOf(target_idx, mask_to_vec(other_cands)),
                         <<>>)

find_hidden_single_in_group(b, group) ==
  LET nums == {num \in Digits : Cardinality(unit_positions(b, group, num)) = 1}
  IN IF nums = {} THEN NoStep
     ELSE LET num == MinOf(nums)
              target_idx == group[MinOf(unit_positions(b, group, num))]
              other_cands == b.candidates[target_idx] \ {num}
          IN SolvingStep("HiddenSingle", <<Placement(target_idx, num)>>,
                         collect_peer_eliminations(b, target_idx, num)
                           \o ElimsOf(target_idx, mask_to_vec(other_cands)),
                         <<>>)

find_hidden_single(b) ==
  FirstSome([u \in 1..27 |-> find_hidden_single_in_group(b, ALL_UNITS[u])])

(***************************************************************************)
(* subsets.rs                                                              *)
(***************************************************************************)
\* filter_naked_subset_candidates that keeps only the cells with exactly
\* size candidates
filter_naked_subset_candidates_exact(b, unit, size) ==
  SelectSeq(unit, LAMBDA i : b.cells[i] = 0 /\ Cardinality(b.candidates[i]) = size)

filter_naked_subset_candidates(b, unit, size) ==
  SelectSeq(unit, LAMBDA i : /\ b.cells[i] = 0
                             /\ Cardinality(b.candidates[i]) >= 2
                             /\ Cardinality(b.candidates[i]) <= size)

\* a mutation of construct_naked_subset_step: the is_empty check is missing
construct_naked_subset_step_unchecked(b, indices, mask, unit, technique) ==
  LET cands == mask_to_vec(mask)
      eliminations ==
        FlatSeq([k \in 1..9 |->
          LET idx == unit[k]
          IN IF ~Contains(indices, idx) /\ b.cells[idx] = 0
                /\ (b.candidates[idx] \cap mask) # {}
             THEN ElimsOf(idx, SelectSeq(cands, LAMBDA v : v \in b.candidates[idx]))
             ELSE <<>>])
  IN SolvingStep(technique, <<>>, eliminations,
                 [k \in 1..Len(indices) |-> CauseCell(indices[k], cands)])

construct_naked_subset_step(b, indices, mask, unit, technique) ==
  LET cands == mask_to_vec(mask)
      eliminations ==
        FlatSeq([k \in 1..9 |->
          LET idx == unit[k]
          IN IF ~Contains(indices, idx) /\ b.cells[idx] = 0
                /\ (b.candidates[idx] \cap mask) # {}
             THEN ElimsOf(idx, SelectSeq(cands, LAMBDA v : v \in b.candidates[idx]))
             ELSE <<>>])
  IN IF eliminations = <<>> THEN NoStep
     ELSE SolvingStep(technique, <<>>, eliminations,
                      [k \in 1..Len(indices) |-> CauseCell(indices[k], cands)])

check_naked_pair(b, idx1, idx2, unit) ==
  LET mask == b.candidates[idx1]
  IN IF mask = b.candidates[idx2] /\ Cardinality(mask) = 2
     THEN construct_naked_subset_step(b, <<idx1, idx2>>, mask, unit, "NakedPair")
     ELSE NoStep

find_naked_pair(b) ==
  FirstSome([u \in 1..27 |->
    LET p == filter_naked_subset_candidates(b, ALL_UNITS[u], 2)
    IN IF Len(p) < 2 THEN NoStep
       ELSE FirstSome([i \in (1)..(Len(p)) |->
              FirstSome([j \in (i + 1)..(Len(p)) |->
                check_naked_pair(b, p[i], p[j], ALL_UNITS[u])])])])

check_naked_triple(b, idx1, idx2, idx3, unit) ==
  LET union_mask == b.candidates[idx1] \cup b.candidates[idx2] \cup b.candidates[idx3]
  IN IF Cardinality(union_mask) = 3
     THEN construct_naked_subset_step(b, <<idx1, idx2, idx3>>, union_mask, unit, "NakedTriple")
     ELSE NoStep

check_naked_triple_combinations(b, indices, unit) ==
  FirstSome([i \in (1)..(Len(indices)) |->
    FirstSome([j \in (i + 1)..(Len(indices)) |->
      FirstSome([k \in (j + 1)..(Len(indices)) |->
        check_naked_triple(b, indices[i], indices[j], indices[k], unit)])])])

find_naked_triple(b) ==
  FirstSome([u \in 1..27 |->
    LET p == filter_naked_subset_candidates(b, ALL_UNITS[u], 3)
    IN IF Len(p) < 3 THEN NoStep
       ELSE check_naked_triple_combinations(b, p, ALL_UNITS[u])])

\* get_candidate_positions_in_unit: digit -> set of unit positions (0..8)
get_candidate_positions_in_unit(b, unit) ==
  [n \in Digits |-> {pos \in 0..8 : HasCand(b, unit[pos + 1], n)}]

filter_hidden_subset_candidates(pos_masks, size) ==
  SelectSeq(DigitSeq, LAMBDA n : /\ Cardinality(pos_masks[n]) >= 2
                                 /\ Cardinality(pos_masks[n]) <= size)

indices_from_unit_mask(unit, mask) ==
  LET pos == SelectSeq([k \in 1..9 |-> k - 1], LAMBDA i : i \in mask)
  IN [k \in 1..Len(pos) |-> unit[pos[k] + 1]]

\* a mutation of construct_hidden_subset_step: the is_empty check is missing
construct_hidden_subset_step_unchecked(b, indices, keep_mask, subset_nums, technique) ==
  SolvingStep(technique, <<>>,
              FlatSeq([k \in 1..Len(indices) |->
                         ElimsOf(indices[k],
                                 mask_to_vec(b.candidates[indices[k]] \ keep_mask))]),
              [k \in 1..Len(indices) |-> CauseCell(indices[k], subset_nums)])

construct_hidden_subset_step(b, indices, keep_mask, subset_nums, technique) ==
  LET eliminations ==
        FlatSeq([k \in 1..(Len(indices)) |->
          ElimsOf(indices[k], mask_to_vec(b.candidates[indices[k]] \ keep_mask))])
  IN IF eliminations = <<>> THEN NoStep
     ELSE SolvingStep(technique, <<>>, eliminations,
                      [k \in 1..Len(indices) |-> CauseCell(indices[k], subset_nums)])

check_hidden_pair(b, n1, n2, pos_masks, unit) ==
  IF pos_masks[n1] = pos_masks[n2] /\ Cardinality(pos_masks[n1]) = 2
  THEN construct_hidden_subset_step(b, indices_from_unit_mask(unit, pos_masks[n1]),
                                    {n1, n2}, <<n1, n2>>, "HiddenPair")
  ELSE NoStep

find_hidden_pair(b) ==
  FirstSome([u \in 1..27 |->
    LET pos_masks == get_candidate_positions_in_unit(b, ALL_UNITS[u])
        c == filter_hidden_subset_candidates(pos_masks, 2)
    IN IF Len(c) < 2 THEN NoStep
       ELSE FirstSome([i \in (1)..(Len(c)) |->
              FirstSome([j \in (i + 1)..(Len(c)) |->
                check_hidden_pair(b, c[i], c[j], pos_masks, ALL_UNITS[u])])])])

check_hidden_triple(b, n1, n2, n3, pos_masks, unit) ==
  LET combined_pos == pos_masks[n1] \cup pos_masks[n2] \cup pos_masks[n3]
  IN IF Cardinality(combined_pos) = 3
     THEN construct_hidden_subset_step(b, indices_from_unit_mask(unit, combined_pos),
                                       {n1, n2, n3}, <<n1, n2, n3>>, "HiddenTriple")
     ELSE NoStep

check_hidden_triple_combinations(b, c, pos_masks, unit) ==
  FirstSome([i \in (1)..(Len(c)) |->
    FirstSome([j \in (i + 1)..(Len(c)) |->
      FirstSome([k \in (j + 1)..(Len(c)) |->
        check_hidden_triple(b, c[i], c[j], c[k], pos_masks, unit)])])])

find_hidden_triple(b) ==
  FirstSome([u \in 1..27 |->
    LET pos_masks == get_candidate_positions_in_unit(b, ALL_UNITS[u])
        c == filter_hidden_subset_candidates(pos_masks, 3)
    IN IF Len(c) < 3 THEN NoStep
       ELSE check_hidden_triple_combinations(b, c, pos_masks, ALL_UNITS[u])])

(***************************************************************************)
(* intersection.rs                                                         *)
(***************************************************************************)
\* collect_pointing_elims: walk the line k = 0..8 through `mapper`, keep the
\* cells outside the source box that still hold num
\* collect_pointing_elims without the test that leaves the source box out
collect_pointing_elims_with_box(b, num, mapper, box_idx) ==
  LET line == [k \in 1..9 |-> mapper[k - 1]]
  IN ElimsOf_num(SelectSeq(line, LAMBDA idx : HasCand(b, idx, num)), num)

collect_pointing_elims(b, num, mapper, box_idx) ==
  LET line == [k \in 1..9 |-> mapper[k - 1]]
      hit == SelectSeq(line, LAMBDA idx :
               /\ (idx \div 27 # box_idx \div 3 \/ (idx % 9) \div 3 # box_idx % 3)
               /\ HasCand(b, idx, num))
  IN ElimsOf_num(hit, num)

build_pointing_step(cells, elims, num) ==
  SolvingStep(IF Len(cells) = 2 THEN "PointingPair" ELSE "PointingTriple",
              <<>>, elims,
              [k \in 1..Len(cells) |-> CauseCell(cells[k], <<num>>)])

check_pointing_alignment(b, cells, box_idx, num) ==
  LET row0 == cells[1] \div 9
      col0 == cells[1] % 9
      same_row == \A k \in 1..Len(cells) : cells[k] \div 9 = row0
      same_col == \A k \in 1..Len(cells) : cells[k] % 9 = col0
      row_elims == collect_pointing_elims(b, num, [col \in 0..8 |-> row0 * 9 + col], box_idx)
      col_elims == collect_pointing_elims(b, num, [row \in 0..8 |-> row * 9 + col0], box_idx)
  IN IF same_row /\ row_elims # <<>> THEN build_pointing_step(cells, row_elims, num)
     ELSE IF same_col /\ col_elims # <<>> THEN build_pointing_step(cells, col_elims, num)
     ELSE NoStep

find_pointing_subset(b) ==
  FirstSome([box_idx \in 0..8 |->
    FirstSome([num \in 1..9 |->
      LET cells == SelectSeq(BOX_UNITS[box_idx], LAMBDA i : HasCand(b, i, num))
      IN IF Len(cells) < 2 \/ Len(cells) > 3 THEN NoStep
         ELSE check_pointing_alignment(b, cells, box_idx, num)])])

\* a mutation of collect_claiming_elims: the cells of the source line are
\* taken instead of the cells outside it
collect_claiming_elims_in_line(b, box_idx, source_line_idx, is_row, num) ==
  ElimsOf_num(
    SelectSeq(BOX_UNITS[box_idx], LAMBDA idx :
      /\ (IF is_row THEN idx \div 9 = source_line_idx ELSE idx % 9 = source_line_idx)
      /\ HasCand(b, idx, num)),
    num)

collect_claiming_elims(b, box_idx, source_line_idx, is_row, num) ==
  ElimsOf_num(
    SelectSeq(BOX_UNITS[box_idx], LAMBDA idx :
      /\ ~(IF is_row THEN idx \div 9 = source_line_idx ELSE idx % 9 = source_line_idx)
      /\ HasCand(b, idx, num)),
    num)

\* find_claiming_in_unit without the test that the cells lie in one box: the
\* box of the first cell is used
find_claiming_in_unit_any_box(b, unit_idx, is_row) ==
  LET unit == IF is_row THEN ROW_UNITS[unit_idx] ELSE COL_UNITS[unit_idx]
  IN FirstSome([num \in 1..9 |->
       LET cells == SelectSeq(unit, LAMBDA idx : HasCand(b, idx, num))
       IN IF cells # <<>>
          THEN LET box_idx == ((cells[1] \div 9) \div 3) * 3 + ((cells[1] % 9) \div 3)
                   elims == collect_claiming_elims(b, box_idx, unit_idx, is_row, num)
               IN IF elims # <<>>
                  THEN SolvingStep("ClaimingCandidate", <<>>, elims,
                         [k \in 1..Len(cells) |-> CauseCell(cells[k], <<num>>)])
                  ELSE NoStep
          ELSE NoStep])

find_claiming_in_unit(b, unit_idx, is_row) ==
  LET unit == IF is_row THEN ROW_UNITS[unit_idx] ELSE COL_UNITS[unit_idx]
  IN FirstSome([num \in 1..9 |->
       LET cells == SelectSeq(unit, LAMBDA idx : HasCand(b, idx, num))
           box_indices == {((cells[k] \div 9) \div 3) * 3 + ((cells[k] % 9) \div 3)
                             : k \in 1..Len(cells)}
       IN IF cells # <<>> /\ Cardinality(box_indices) = 1
          THEN LET box_idx == CHOOSE x \in box_indices : TRUE
                   elims == collect_claiming_elims(b, box_idx, unit_idx, is_row, num)
               IN IF elims # <<>>
                  THEN SolvingStep("ClaimingCandidate", <<>>, elims,
                         [k \in 1..Len(cells) |-> CauseCell(cells[k], <<num>>)])
                  ELSE NoStep
          ELSE NoStep])

find_claiming_candidates(b) ==
  LET rows == FirstSome([row \in 0..8 |-> find_claiming_in_unit(b, row, TRUE)])
  IN IF rows # NoStep THEN rows
     ELSE FirstSome([col \in 0..8 |-> find_claiming_in_unit(b, col, FALSE)])

(***************************************************************************)
(* fish.rs                                                                 *)
(***************************************************************************)
\* get_all_fish_masks (mod.rs): row_masks[num][r] is the set of columns c
\* (0..8) with num a candidate of the empty cell (r, c); col_masks likewise
get_all_fish_masks(b) ==
  [row_masks |-> [num \in Digits |-> [r \in 0..8 |->
                    {c \in 0..8 : HasCand(b, r * 9 + c, num)}]],
   col_masks |-> [num \in Digits |-> [c \in 0..8 |->
                    {r \in 0..8 : HasCand(b, r * 9 + c, num)}]]]

Line09 == [k \in 1..9 |-> k - 1]

collect_fish_causes(b, num, base_indices, cover_indices, is_row_base) ==
  FlatSeq([i \in 1..(Len(base_indices)) |->
    LET cellsOf == [j \in 1..Len(cover_indices) |->
                      IF is_row_base THEN base_indices[i] * 9 + cover_indices[j]
                      ELSE cover_indices[j] * 9 + base_indices[i]]
        hit == SelectSeq(cellsOf, LAMBDA c : HasCand(b, c, num))
    IN [k \in 1..Len(hit) |-> CauseCell(hit[k], <<num>>)]])

\* collect_fish_eliminations without the test that skips the base lines
collect_fish_eliminations_with_base(b, num, base_indices, cover_indices, is_row_base) ==
  FlatSeq([j \in 1..(Len(cover_indices)) |->
    LET cellsOf == [k \in 1..9 |->
                      IF is_row_base THEN Line09[k] * 9 + cover_indices[j]
                      ELSE cover_indices[j] * 9 + Line09[k]]
    IN ElimsOf_num(SelectSeq(cellsOf, LAMBDA c : HasCand(b, c, num)), num)])

collect_fish_eliminations(b, num, base_indices, cover_indices, is_row_base) ==
  FlatSeq([j \in 1..(Len(cover_indices)) |->
    LET orth == SelectSeq(Line09, LAMBDA o : ~Contains(base_indices, o))
        cellsOf == [k \in 1..Len(orth) |->
                      IF is_row_base THEN orth[k] * 9 + cover_indices[j]
                      ELSE cover_indices[j] * 9 + orth[k]]
    IN ElimsOf_num(SelectSeq(cellsOf, LAMBDA c : HasCand(b, c, num)), num)])

construct_fish_step(b, num, base_indices, union_mask, is_row_base, tech_name) ==
  LET cover_indices == SelectSeq(Line09, LAMBDA x : x \in union_mask)
      cause_cells == collect_fish_causes(b, num, base_indices, cover_indices, is_row_base)
      eliminations == collect_fish_eliminations(b, num, base_indices, cover_indices, is_row_base)
  IN IF eliminations = <<>> THEN NoStep
     ELSE SolvingStep(tech_name, <<>>, eliminations, cause_cells)

\* ctx: [num, valid_indices, masks, size, is_row_base, tech_name]
RECURSIVE find_fish_combo(_, _, _, _)
find_fish_combo(b, ctx, start, combo) ==
  IF Len(combo) = ctx.size
  THEN LET union_mask == UNION {ctx.masks[combo[k]] : k \in 1..Len(combo)}
       IN IF Cardinality(union_mask) <= ctx.size
          THEN construct_fish_step(b, ctx.num, combo, union_mask,
                                   ctx.is_row_base, ctx.tech_name)
          ELSE NoStep
  ELSE FirstSome([i \in (start)..(Len(ctx.valid_indices)) |->
         find_fish_combo(b, ctx, i + 1, Append(combo, ctx.valid_indices[i]))])

check_fish(b, num, masks, size, is_row_base, tech_name) ==
  LET valid_indices == SelectSeq(Line09, LAMBDA i :
                         Cardinality(masks[i]) >= 2 /\ Cardinality(masks[i]) <= size)
  IN IF Len(valid_indices) < size THEN NoStep
     ELSE find_fish_combo(b,
            [num |-> num, valid_indices |-> valid_indices, masks |-> masks,
             size |-> size, is_row_base |-> is_row_base, tech_name |-> tech_name],
            1, <<>>)

FISH_CONFIGS == << <<2, "X-Wing">>, <<3, "Swordfish">>, <<4, "Jellyfish">> >>

\* find_fish_techniques with the digits tried from 9 down to 1
find_fish_techniques_digits_descending(b) ==
  LET m == get_all_fish_masks(b)
  IN FirstSome([n \in 1..9 |->
       LET num == 10 - n
       IN FirstSome([cfg \in 1..3 |->
            LET size == FISH_CONFIGS[cfg][1]
                name == FISH_CONFIGS[cfg][2]
                byRow == check_fish(b, num, m.row_masks[num], size, TRUE, name)
            IN IF byRow # NoStep THEN byRow
               ELSE check_fish(b, num, m.col_masks[num], size, FALSE, name)])])

\* find_fish_techniques with the columns tried before the rows
find_fish_techniques_cols_first(b) ==
  LET m == get_all_fish_masks(b)
  IN FirstSome([num \in 1..9 |->
       FirstSome([cfg \in 1..3 |->
         LET size == FISH_CONFIGS[cfg][1]
             name == FISH_CONFIGS[cfg][2]
             byCol == check_fish(b, num, m.col_masks[num], size, FALSE, name)
         IN IF byCol # NoStep THEN byCol
            ELSE check_fish(b, num, m.row_masks[num], size, TRUE, name)])])

find_fish_techniques(b) ==
  LET m == get_all_fish_masks(b)
  IN FirstSome([num \in 1..9 |->
       FirstSome([cfg \in 1..3 |->
         LET size == FISH_CONFIGS[cfg][1]
             name == FISH_CONFIGS[cfg][2]
             byRow == check_fish(b, num, m.row_masks[num], size, TRUE, name)
         IN IF byRow # NoStep THEN byRow
            ELSE check_fish(b, num, m.col_masks[num], size, FALSE, name)])])

(***************************************************************************)
(* single_digit.rs                                                         *)
(***************************************************************************)
\* the eliminations pushed while walking PEER_MAP[c1]: the empty cells that
\* hold num and are also listed in PEER_MAP[c2]
common_peer_elims(b, c1, c2, num) ==
  ElimsOf_num(SelectSeq(PEER_MAP[c1], LAMBDA t :
                HasCand(b, t, num) /\ Contains(PEER_MAP[c2], t)), num)

check_skyscraper_pair(b, num, masks, is_row_base, r1, r2) ==
  LET m1 == masks[r1]
      m2 == masks[r2]
      common == m1 \cap m2
  IN IF Cardinality(common) # 1 THEN NoStep
     ELSE
       LET c1_idx == MinOf(m1 \ common)
           c2_idx == MinOf(m2 \ common)
           roof_cell_1 == IF is_row_base THEN r1 * 9 + c1_idx ELSE c1_idx * 9 + r1
           roof_cell_2 == IF is_row_base THEN r2 * 9 + c2_idx ELSE c2_idx * 9 + r2
           base_col == MinOf(common)
           base_cell_1 == IF is_row_base THEN r1 * 9 + base_col ELSE base_col * 9 + r1
           base_cell_2 == IF is_row_base THEN r2 * 9 + base_col ELSE base_col * 9 + r2
           elims == common_peer_elims(b, roof_cell_1, roof_cell_2, num)
       IN IF elims # <<>>
          THEN SolvingStep("Skyscraper", <<>>, elims,
                 <<CauseCell(roof_cell_1, <<num>>), CauseCell(roof_cell_2, <<num>>),
                   CauseCell(base_cell_1, <<num>>), CauseCell(base_cell_2, <<num>>)>>)
          ELSE NoStep

\* check_skyscraper that also takes lines with more than two places
check_skyscraper_wide(b, num, masks, is_row_base) ==
  LET valid_indices == SelectSeq(Line09, LAMBDA i : Cardinality(masks[i]) >= 2)
  IN IF Len(valid_indices) < 2 THEN NoStep
     ELSE FirstSome([i \in (1)..(Len(valid_indices)) |->
            FirstSome([j \in (i + 1)..(Len(valid_indices)) |->
              check_skyscraper_pair(b, num, masks, is_row_base,
                                    valid_indices[i], valid_indices[j])])])

check_skyscraper(b, num, masks, is_row_base) ==
  LET valid_indices == SelectSeq(Line09, LAMBDA i : Cardinality(masks[i]) = 2)
  IN IF Len(valid_indices) < 2 THEN NoStep
     ELSE FirstSome([i \in (1)..(Len(valid_indices)) |->
            FirstSome([j \in (i + 1)..(Len(valid_indices)) |->
              check_skyscraper_pair(b, num, masks, is_row_base,
                                    valid_indices[i], valid_indices[j])])])

find_skyscraper(b) ==
  LET m == get_all_fish_masks(b)
  IN FirstSome([num \in 1..9 |->
       LET byRow == check_skyscraper(b, num, m.row_masks[num], TRUE)
       IN IF byRow # NoStep THEN byRow
          ELSE check_skyscraper(b, num, m.col_masks[num], FALSE)])

get_box(idx) == ((idx \div 9) \div 3) * 3 + ((idx % 9) \div 3)

construct_kite_step(b, num, rc, cc, other_rc, other_cc) ==
  LET elims == common_peer_elims(b, other_rc, other_cc, num)
  IN IF elims # <<>>
     THEN SolvingStep("TwoStringKite", <<>>, elims,
            <<CauseCell(rc, <<num>>), CauseCell(cc, <<num>>),
              CauseCell(other_rc, <<num>>), CauseCell(other_cc, <<num>>)>>)
     ELSE NoStep

\* check_kite_pair without the test that the two cells share a box
check_kite_pair_any_box(b, num, rc, cc, row_cells, col_cells) ==
  IF rc = cc THEN NoStep
  ELSE construct_kite_step(b, num, rc, cc,
         IF rc = row_cells[1] THEN row_cells[2] ELSE row_cells[1],
         IF cc = col_cells[1] THEN col_cells[2] ELSE col_cells[1])

check_kite_pair(b, num, rc, cc, row_cells, col_cells) ==
  IF rc = cc THEN NoStep
  ELSE IF get_box(rc) = get_box(cc)
       THEN construct_kite_step(b, num, rc, cc,
              IF rc = row_cells[1] THEN row_cells[2] ELSE row_cells[1],
              IF cc = col_cells[1] THEN col_cells[2] ELSE col_cells[1])
       ELSE NoStep

find_kite_connection(b, num, row_cells, col_cells) ==
  FirstSome([i \in 1..2 |->
    FirstSome([j \in 1..2 |->
      check_kite_pair(b, num, row_cells[i], col_cells[j], row_cells, col_cells)])])

\* r_mask / c_mask are position sets (0..8); mask_to_vec numbers them 1..9
check_kite_intersection(b, num, r, c, r_mask, c_mask) ==
  LET r_cols == mask_to_vec({x + 1 : x \in r_mask})
      c_rows == mask_to_vec({x + 1 : x \in c_mask})
  IN find_kite_connection(b, num,
       <<r * 9 + (r_cols[1] - 1), r * 9 + (r_cols[2] - 1)>>,
       <<(c_rows[1] - 1) * 9 + c, (c_rows[2] - 1) * 9 + c>>)

check_two_string_kite_for_num(b, num, row_masks, col_masks) ==
  LET rows_2 == SelectSeq(Line09, LAMBDA i : Cardinality(row_masks[num][i]) = 2)
      cols_2 == SelectSeq(Line09, LAMBDA i : Cardinality(col_masks[num][i]) = 2)
  IN FirstSome([i \in (1)..(Len(rows_2)) |->
       FirstSome([j \in (1)..(Len(cols_2)) |->
         check_kite_intersection(b, num, rows_2[i], cols_2[j],
                                 row_masks[num][rows_2[i]], col_masks[num][cols_2[j]])])])

find_two_string_kite(b) ==
  LET m == get_all_fish_masks(b)
  IN FirstSome([num \in 1..9 |->
       check_two_string_kite_for_num(b, num, m.row_masks, m.col_masks)])

(***************************************************************************)
(* uniqueness.rs                                                           *)
(***************************************************************************)
get_box_index(idx) == (idx \div 27) * 3 + (idx % 9) \div 3

\* is_valid_ur_geometry that asks only that each row's two corners share a
\* box: one-box rectangles pass, rectangles whose columns lie in different
\* stacks do not
is_valid_ur_geometry_row_boxes(indices) ==
  /\ get_box_index(indices[1]) = get_box_index(indices[2])
  /\ get_box_index(indices[3]) = get_box_index(indices[4])

\* is_valid_ur_geometry that accepts every rectangle
is_valid_ur_geometry_any(indices) == Len(indices) = 4

is_valid_ur_geometry(indices) ==
  LET b_tl == get_box_index(indices[1])
      b_tr == get_box_index(indices[2])
      b_bl == get_box_index(indices[3])
      b_br == get_box_index(indices[4])
  IN \/ (b_tl = b_bl /\ b_tr = b_br /\ b_tl # b_tr)
     \/ (b_tl = b_tr /\ b_bl = b_br /\ b_tl # b_bl)

solve_ur_type_1(b, indices) ==
  LET masks == [k \in 1..4 |-> b.candidates[indices[k]]]
      count(i) == Cardinality({k \in 1..4 : masks[k] = masks[i]})
      firsts == {i \in 1..4 : Cardinality(masks[i]) = 2 /\ count(i) >= 3}
  IN IF firsts = {} THEN NoStep
     ELSE
       LET common_mask == masks[MinOf(firsts)]
           targets == {i \in 1..4 : masks[i] # common_mask
                                      /\ (masks[i] \cap common_mask) = common_mask}
       IN IF targets = {} THEN NoStep
          ELSE
            LET i == MinOf(targets)
                elim_vals == mask_to_vec(common_mask)
                others == SelectSeq(<<1, 2, 3, 4>>, LAMBDA k : k # i)
            IN SolvingStep("UniqueRectangleType1", <<>>,
                 ElimsOf(indices[i], elim_vals),
                 [k \in 1..3 |-> CauseCell(indices[others[k]], elim_vals)])

check_ur_for_coords(b, r1, r2, c1, c2) ==
  LET indices == <<r1 * 9 + c1, r1 * 9 + c2, r2 * 9 + c1, r2 * 9 + c2>>
  IN IF ~is_valid_ur_geometry(indices) THEN NoStep
     ELSE IF \E k \in 1..4 : b.cells[indices[k]] # 0 THEN NoStep
     ELSE solve_ur_type_1(b, indices)

find_unique_rectangle_type_1(b) ==
  FirstSome([r1 \in 0..8 |->
    FirstSome([r2 \in (r1 + 1)..(8) |->
      FirstSome([c1 \in 0..8 |->
        FirstSome([c2 \in (c1 + 1)..(8) |->
          check_ur_for_coords(b, r1, r2, c1, c2)])])])])

(***************************************************************************)
(* wings.rs                                                                *)
(***************************************************************************)
\* find_xy_wing_eliminations that takes every peer of the first pincer, seen
\* by the second pincer or not
find_xy_wing_eliminations_first_pincer(b, p1_idx, p2_idx, pivot_idx, c_val) ==
  ElimsOf_num(SelectSeq(PEER_MAP[p1_idx], LAMBDA t :
                /\ t # pivot_idx
                /\ t # p2_idx
                /\ HasCand(b, t, c_val)), c_val)

find_xy_wing_eliminations(b, p1_idx, p2_idx, pivot_idx, c_val) ==
  ElimsOf_num(SelectSeq(PEER_MAP[p1_idx], LAMBDA t :
                /\ t # pivot_idx
                /\ t # p2_idx
                /\ HasCand(b, t, c_val)
                /\ Contains(PEER_MAP[p2_idx], t)), c_val)

check_xy_wing_pincers(b, pivot_idx, p1_idx, peers, a, bb) ==
  LET p1_cands == b.candidates[p1_idx]
      share_a == a \in p1_cands
      share_b == bb \in p1_cands
  IN IF share_a = share_b THEN NoStep
     ELSE
       LET c_val == IF share_a THEN MinOf(p1_cands \ {a}) ELSE MinOf(p1_cands \ {bb})
           other_pivot_val == IF share_a THEN bb ELSE a
           target_mask == {other_pivot_val, c_val}
       IN FirstSome([k \in (1)..(Len(peers)) |->
            LET p2_idx == peers[k]
            IN IF p1_idx = p2_idx THEN NoStep
               ELSE IF b.candidates[p2_idx] = target_mask
               THEN LET elims == find_xy_wing_eliminations(b, p1_idx, p2_idx, pivot_idx, c_val)
                    IN IF elims # <<>>
                       THEN SolvingStep("XY-Wing", <<>>, elims,
                              <<CauseCell(pivot_idx, <<a, bb>>),
                                CauseCell(p1_idx, mask_to_vec(b.candidates[p1_idx])),
                                CauseCell(p2_idx, mask_to_vec(b.candidates[p2_idx]))>>)
                       ELSE NoStep
               ELSE NoStep])

find_xy_wing_for_pivot(b, pivot_idx) ==
  LET pivot_cands == mask_to_vec(b.candidates[pivot_idx])
      a == pivot_cands[1]
      bb == pivot_cands[2]
      peer_bivalues == SelectSeq(PEER_MAP[pivot_idx], LAMBDA idx :
                         /\ b.cells[idx] = 0
                         /\ Cardinality(b.candidates[idx]) = 2
                         /\ (b.candidates[idx] \cap b.candidates[pivot_idx]) # {})
  IN FirstSome([k \in (1)..(Len(peer_bivalues)) |->
       check_xy_wing_pincers(b, pivot_idx, peer_bivalues[k], peer_bivalues, a, bb)])

\* the empty cells with exactly n candidates, in index order
cells_with_count(b, n) ==
  SelectSeq(CellsAsc, LAMBDA i : b.cells[i] = 0 /\ Cardinality(b.candidates[i]) = n)

find_xy_wing(b) ==
  LET bivalue_cells == cells_with_count(b, 2)
  IN IF Len(bivalue_cells) < 3 THEN NoStep
     ELSE FirstSome([k \in (1)..(Len(bivalue_cells)) |->
            find_xy_wing_for_pivot(b, bivalue_cells[k])])

\* check_xyz_wing_pincers that eliminates at every peer of the pivot, seen by
\* the pincers or not
check_xyz_wing_pincers_pivot_peers(b, pivot, p1, p2, pivot_mask) ==
  LET m1 == b.candidates[p1]
      m2 == b.candidates[p2]
      common_mask == pivot_mask \cap m1 \cap m2
  IN IF Cardinality(common_mask) # 1 THEN NoStep
     ELSE
       LET elim_val == MinOf(common_mask)
           elims == ElimsOf_num(SelectSeq(PEER_MAP[pivot], LAMBDA t :
                      /\ t # p1
                      /\ t # p2
                      /\ HasCand(b, t, elim_val)), elim_val)
       IN IF elims # <<>>
          THEN SolvingStep("XYZ-Wing", <<>>, elims,
                 <<CauseCell(pivot, mask_to_vec(pivot_mask)),
                   CauseCell(p1, mask_to_vec(m1)),
                   CauseCell(p2, mask_to_vec(m2))>>)
          ELSE NoStep

check_xyz_wing_pincers(b, pivot, p1, p2, pivot_mask) ==
  LET m1 == b.candidates[p1]
      m2 == b.candidates[p2]
      common_mask == pivot_mask \cap m1 \cap m2
  IN IF Cardinality(common_mask) # 1 THEN NoStep
     ELSE
       LET elim_val == MinOf(common_mask)
           elims == ElimsOf_num(SelectSeq(PEER_MAP[pivot], LAMBDA t :
                      /\ t # p1
                      /\ t # p2
                      /\ HasCand(b, t, elim_val)
                      /\ Contains(PEER_MAP[p1], t)
                      /\ Contains(PEER_MAP[p2], t)), elim_val)
       IN IF elims # <<>>
          THEN SolvingStep("XYZ-Wing", <<>>, elims,
                 <<CauseCell(pivot, mask_to_vec(pivot_mask)),
                   CauseCell(p1, mask_to_vec(m1)),
                   CauseCell(p2, mask_to_vec(m2))>>)
          ELSE NoStep

find_xyz_wing_for_pivot(b, pivot_idx) ==
  LET pivot_mask == b.candidates[pivot_idx]
      potential_pincers == SelectSeq(PEER_MAP[pivot_idx], LAMBDA idx :
                             /\ b.cells[idx] = 0
                             /\ Cardinality(b.candidates[idx]) = 2
                             /\ (b.candidates[idx] \ pivot_mask) = {})
  IN IF Len(potential_pincers) < 2 THEN NoStep
     ELSE FirstSome([i \in (1)..(Len(potential_pincers)) |->
            FirstSome([j \in (i + 1)..(Len(potential_pincers)) |->
              check_xyz_wing_pincers(b, pivot_idx, potential_pincers[i],
                                     potential_pincers[j], pivot_mask)])])

find_xyz_wing(b) ==
  LET trivalue_cells == cells_with_count(b, 3)
  IN FirstSome([k \in (1)..(Len(trivalue_cells)) |->
       find_xyz_wing_for_pivot(b, trivalue_cells[k])])

are_peers(i1, i2) ==
  IF i1 = i2 THEN FALSE
  ELSE LET r1 == i1 \div 9
           c1 == i1 % 9
           r2 == i2 \div 9
           c2 == i2 % 9
       IN IF r1 = r2 \/ c1 = c2 THEN TRUE
          ELSE (r1 \div 3) * 3 + (c1 \div 3) = (r2 \div 3) * 3 + (c2 \div 3)

get_common_peer_eliminations(b, idx1, idx2, val) ==
  ElimsOf_num(SelectSeq(PEER_MAP[idx1], LAMBDA peer :
                Contains(PEER_MAP[idx2], peer) /\ HasCand(b, peer, val)), val)

\* check_w_wing_link that takes any unit with two places of the link digit,
\* connected to the two cells or not
check_w_wing_link_unconnected(b, idx1, idx2, link_val, elim_val) ==
  FirstSome([u \in 1..27 |->
    LET positions == SelectSeq(ALL_UNITS[u], LAMBDA idx : HasCand(b, idx, link_val))
    IN IF Len(positions) # 2 THEN NoStep
       ELSE LET elims == get_common_peer_eliminations(b, idx1, idx2, elim_val)
            IN IF elims # <<>>
               THEN SolvingStep("W-Wing", <<>>, elims,
                      <<CauseCell(idx1, <<link_val, elim_val>>),
                        CauseCell(idx2, <<link_val, elim_val>>),
                        CauseCell(positions[1], <<link_val>>),
                        CauseCell(positions[2], <<link_val>>)>>)
               ELSE NoStep])

check_w_wing_link(b, idx1, idx2, link_val, elim_val) ==
  FirstSome([u \in 1..27 |->
    LET positions == SelectSeq(ALL_UNITS[u], LAMBDA idx : HasCand(b, idx, link_val))
    IN IF Len(positions) # 2 THEN NoStep
       ELSE
         LET p1 == positions[1]
             p2 == positions[2]
             case1 == are_peers(idx1, p1) /\ are_peers(idx2, p2)
             case2 == are_peers(idx1, p2) /\ are_peers(idx2, p1)
         IN IF ~(case1 \/ case2) THEN NoStep
            ELSE LET elims == get_common_peer_eliminations(b, idx1, idx2, elim_val)
                 IN IF elims # <<>>
                    THEN SolvingStep("W-Wing", <<>>, elims,
                           <<CauseCell(idx1, <<link_val, elim_val>>),
                             CauseCell(idx2, <<link_val, elim_val>>),
                             CauseCell(p1, <<link_val>>),
                             CauseCell(p2, <<link_val>>)>>)
                    ELSE NoStep])

\* check_w_wing_pair that tries the higher digit as link first
check_w_wing_pair_high_first(b, idx1, idx2) ==
  LET mask1 == b.candidates[idx1]
      mask2 == b.candidates[idx2]
  IN IF mask1 # mask2 THEN NoStep
     ELSE IF Contains(PEER_MAP[idx1], idx2) THEN NoStep
     ELSE LET cands == mask_to_vec(mask1)
              first == check_w_wing_link(b, idx1, idx2, cands[2], cands[1])
          IN IF first # NoStep THEN first
             ELSE check_w_wing_link(b, idx1, idx2, cands[1], cands[2])

check_w_wing_pair(b, idx1, idx2) ==
  LET mask1 == b.candidates[idx1]
      mask2 == b.candidates[idx2]
  IN IF mask1 # mask2 THEN NoStep
     ELSE IF Contains(PEER_MAP[idx1], idx2) THEN NoStep
     ELSE LET cands == mask_to_vec(mask1)
              first == check_w_wing_link(b, idx1, idx2, cands[1], cands[2])
          IN IF first # NoStep THEN first
             ELSE check_w_wing_link(b, idx1, idx2, cands[2], cands[1])

find_w_wing(b) ==
  LET bivalue_cells == cells_with_count(b, 2)
  IN FirstSome([i \in (1)..(Len(bivalue_cells)) |->
       FirstSome([j \in (i + 1)..(Len(bivalue_cells)) |->
         check_w_wing_pair(b, bivalue_cells[i], bivalue_cells[j])])])

(***************************************************************************)
(* Orchestrator (mod.rs solve_with_steps / try_apply_step)                 *)
(***************************************************************************)
NumFinders == 15

\* the finder tried at position k of the `||` chain
Finder(k, b) ==
  CASE k = 1 -> find_naked_single(b)
    [] k = 2 -> find_hidden_single(b)
    [] k = 3 -> find_naked_pair(b)
    [] k = 4 -> find_naked_triple(b)
    [] k = 5 -> find_pointing_subset(b)
    [] k = 6 -> find_hidden_pair(b)
    [] k = 7 -> find_hidden_triple(b)
    [] k = 8 -> find_claiming_candidates(b)
    [] k = 9 -> find_fish_techniques(b)
    [] k = 10 -> find_xy_wing(b)
    [] k = 11 -> find_xyz_wing(b)
    [] k = 12 -> find_skyscraper(b)
    [] k = 13 -> find_two_string_kite(b)
    [] k = 14 -> find_unique_rectangle_type_1(b)
    [] k = 15 -> find_w_wing(b)

\* a mutation of first_progress: hidden single is tried before naked single
RECURSIVE first_progress_swapped(_, _)
first_progress_swapped(b, k) ==
  LET order == <<2, 1, 3, 4, 5, 6, 7, 8, 9, 10, 11, 12, 13, 14, 15>>
  IN IF k > NumFinders THEN 0
     ELSE IF Finder(order[k], b) # NoStep THEN order[k]
     ELSE first_progress_swapped(b, k + 1)

\* a mutation of first_progress: the last finder of the chain is left out
RECURSIVE first_progress_short(_, _)
first_progress_short(b, k) ==
  IF k > NumFinders - 1 THEN 0
  ELSE IF Finder(k, b) # NoStep THEN k
  ELSE first_progress_short(b, k + 1)

\* the short-circuit `||` chain of one loop pass: the index of the first
\* finder that returns Some (0 when a full pass yields nothing)
RECURSIVE first_progress(_, _)
first_progress(b, k) ==
  IF k > NumFinders THEN 0
  ELSE IF Finder(k, b) # NoStep THEN k
  ELSE first_progress(b, k + 1)

\* board.candidates[index] &= !(1 << (value - 1))
clear_candidate(b, index, value) ==
  [b EXCEPT !.candidates[index] = @ \ {value}]

\* the body of try_apply_step after the finder returned `step`:
\* placements through set_cell, then eliminations by clearing the bit
\* try_apply_step that applies the placements and leaves the eliminations
apply_step_placements_only(b, step) ==
  LET placed[k \in 0..Len(step.placements)] ==
        IF k = 0 THEN b
        ELSE set_cell(placed[k - 1], step.placements[k].index,
                      step.placements[k].value).board
  IN placed[Len(step.placements)]

apply_step(b, step) ==
  LET placed[k \in 0..Len(step.placements)] ==
        IF k = 0 THEN b
        ELSE set_cell(placed[k - 1], step.placements[k].index,
                      step.placements[k].value).board
      cleared[k \in 0..Len(step.eliminations)] ==
        IF k = 0 THEN placed[Len(step.placements)]
        ELSE clear_candidate(cleared[k - 1], step.eliminations[k].index,
                             step.eliminations[k].value)
  IN cleared[Len(step.eliminations)]

(***************************************************************************)
(* Difficulty classification (mod.rs analyze_difficulty)                   *)
(***************************************************************************)
\* TechniqueLevel: None < Basic < Intermediate < Advanced < Master
LevelNone == 0
LevelBasic == 1
LevelIntermediate == 2
LevelAdvanced == 3
LevelMaster == 4

\* the `match step.technique.as_str()` of analyze_difficulty
\* the match of analyze_difficulty without the TwoStringKite arm
technique_level_no_kite(technique) ==
  IF technique \in {"NakedSingle", "HiddenSingle"} THEN LevelBasic
  ELSE IF technique \in {"PointingPair", "PointingTriple", "NakedPair", "NakedTriple",
                          "HiddenPair", "HiddenTriple", "ClaimingCandidate"}
       THEN LevelIntermediate
  ELSE IF technique \in {"X-Wing", "Swordfish", "XY-Wing", "XYZ-Wing", "Skyscraper"}
       THEN LevelAdvanced
  ELSE IF technique \in {"Jellyfish", "UniqueRectangleType1", "W-Wing"} THEN LevelMaster
  ELSE LevelNone

technique_level(technique) ==
  IF technique \in {"NakedSingle", "HiddenSingle"} THEN LevelBasic
  ELSE IF technique \in {"PointingPair", "PointingTriple", "NakedPair", "NakedTriple",
                          "HiddenPair", "HiddenTriple", "ClaimingCandidate"}
       THEN LevelIntermediate
  ELSE IF technique \in {"X-Wing", "Swordfish", "XY-Wing", "XYZ-Wing", "Skyscraper",
                          "TwoStringKite"}
       THEN LevelAdvanced
  ELSE IF technique \in {"Jellyfish", "UniqueRectangleType1", "W-Wing"} THEN LevelMaster
  ELSE LevelNone

\* no DifficultyStats computed (yet) for the current step list
NoStats == [max_level |-> -1, intermediate_count |-> 0, advanced_count |-> 0,
            master_count |-> 0]

\* a mutation of analyze_difficulty: max_level is the level of the last step
analyze_difficulty_last(step_list) ==
  LET lv(k) == technique_level(step_list[k].technique)
      n == Len(step_list)
  IN [max_level |-> IF n = 0 THEN LevelNone ELSE lv(n),
      intermediate_count |-> Cardinality({k \in 1..n : lv(k) = LevelIntermediate}),
      advanced_count |-> Cardinality({k \in 1..n : lv(k) = LevelAdvanced}),
      master_count |-> Cardinality({k \in 1..n : lv(k) = LevelMaster})]

\* analyze_difficulty: one pass over the steps, raising max_level and
\* incrementing the counter of the step's level
analyze_difficulty(step_list) ==
  LET acc[k \in 0..Len(step_list)] ==
        IF k = 0
        THEN [max_level |-> LevelNone, intermediate_count |-> 0,
              advanced_count |-> 0, master_count |-> 0]
        ELSE LET st == acc[k - 1]
                 level == technique_level(step_list[k].technique)
                 raised == IF level > st.max_level
                           THEN [st EXCEPT !.max_level = level] ELSE st
             IN IF level = LevelIntermediate
                THEN [raised EXCEPT !.intermediate_count = @ + 1]
                ELSE IF level = LevelAdvanced
                THEN [raised EXCEPT !.advanced_count = @ + 1]
                ELSE IF level = LevelMaster
                THEN [raised EXCEPT !.master_count = @ + 1]
                ELSE raised
  IN acc[Len(step_list)]

(***************************************************************************)
(* Input grids, row-major, 0 for an empty cell, each with its unique       *)
(* solution: puzzles of tests/logical_solver.rs (naked triple, pointing    *)
(* triple, naked pair, jellyfish / W-Wing, unique rectangle, swordfish),   *)
(* a puzzle on which find_hidden_triple fires, then the XYZ-Wing and the   *)
(* skyscraper puzzle of the tests.                                         *)
(***************************************************************************)
Grids ==
  << <<0,6,1,3,0,5,0,8,0,3,0,5,0,8,0,2,6,0,0,8,0,0,6,0,3,0,5,6,1,2,5,4,0,0,0,0,8,0,0,0,0,6,1,5,0,5,0,0,9,0,0,0,0,0,1,2,0,0,5,0,0,0,8,9,3,0,0,0,0,5,0,0,7,5,0,0,0,2,0,4,0>>,
     <<6,0,0,0,5,4,8,1,0,9,0,4,8,1,3,6,0,0,8,1,0,6,2,0,0,0,4,2,0,6,4,8,0,0,0,0,1,8,0,3,6,2,7,4,0,4,0,0,5,0,1,2,6,8,0,6,8,0,0,5,0,0,0,5,0,2,0,3,8,0,0,6,0,0,1,0,0,6,5,8,0>>,
     <<0,0,0,0,0,8,0,0,5,0,0,9,7,0,0,0,1,0,0,1,0,0,0,0,0,6,8,7,0,5,1,0,0,0,0,0,0,0,0,0,0,3,0,0,4,6,0,0,0,0,0,0,5,7,0,6,0,0,0,5,0,9,0,0,8,0,0,0,0,0,0,0,0,4,0,9,0,0,0,0,0>>,
     <<4,0,0,2,0,0,0,0,9,0,0,1,6,0,0,0,7,0,0,8,0,4,0,0,0,0,1,7,0,4,0,0,0,0,9,0,0,0,0,0,4,0,0,0,0,0,9,0,0,0,0,7,0,6,5,0,0,0,0,3,0,2,0,0,2,0,0,0,6,1,0,0,9,0,0,0,0,4,0,0,7>>,
     <<0,0,0,0,0,3,0,0,0,0,4,0,9,1,0,7,0,0,9,0,6,0,0,0,0,4,3,0,2,0,0,0,0,0,0,4,0,0,0,6,7,5,0,0,0,3,0,0,0,0,0,0,7,0,2,7,0,0,0,0,6,0,1,0,0,5,0,6,9,0,2,0,0,0,0,2,0,0,0,0,0>>,
     <<4,0,0,6,0,0,0,9,5,0,2,0,0,9,5,4,7,8,0,9,5,4,0,0,6,0,0,0,0,0,0,0,0,0,0,2,0,1,2,5,0,7,0,3,0,3,0,0,2,0,0,0,0,0,0,4,1,7,0,2,5,6,0,2,6,7,9,5,0,0,0,0,5,3,0,0,6,4,0,0,7>>,
     <<0,0,0,7,0,4,3,0,1,1,0,0,0,0,8,0,0,0,7,0,0,0,0,3,0,2,0,0,0,0,0,5,7,0,8,0,0,0,3,0,2,0,0,0,9,0,2,0,8,0,0,0,0,0,0,0,0,0,0,6,0,0,0,8,5,4,0,0,0,0,0,0,0,9,0,0,0,0,0,0,4>>,
     <<0,9,2,0,0,1,7,5,0,5,0,0,2,0,0,0,0,8,0,0,0,0,3,0,2,0,0,0,7,5,0,0,4,9,6,0,2,0,0,0,6,0,0,7,5,0,6,9,7,0,0,0,3,0,0,0,8,0,9,0,0,2,0,7,0,0,0,0,3,0,8,9,9,0,3,8,0,0,0,4,0>>,
     <<0,8,9,0,2,0,0,0,0,2,0,0,5,0,9,4,0,8,0,0,0,8,0,0,9,0,2,1,6,2,9,8,7,5,0,0,5,0,0,4,0,2,0,8,9,9,4,8,0,0,0,0,2,0,7,9,0,2,0,8,3,0,0,3,2,0,6,0,0,8,9,0,8,0,0,0,9,0,2,0,0>> >>
Solutions ==
  << <<2,6,1,3,9,5,4,8,7,3,9,5,4,8,7,2,6,1,4,8,7,2,6,1,3,9,5,6,1,2,5,4,3,8,7,9,8,4,9,7,2,6,1,5,3,5,7,3,9,1,8,6,2,4,1,2,4,6,5,9,7,3,8,9,3,6,8,7,4,5,1,2,7,5,8,1,3,2,9,4,6>>,
     <<6,2,7,9,5,4,8,1,3,9,5,4,8,1,3,6,2,7,8,1,3,6,2,7,9,5,4,2,7,6,4,8,9,1,3,5,1,8,5,3,6,2,7,4,9,4,3,9,5,7,1,2,6,8,7,6,8,2,4,5,3,9,1,5,9,2,1,3,8,4,7,6,3,4,1,7,9,6,5,8,2>>,
     <<4,7,6,2,1,8,9,3,5,8,5,9,7,3,6,4,1,2,3,1,2,4,5,9,7,6,8,7,2,5,1,6,4,3,8,9,1,9,8,5,7,3,6,2,4,6,3,4,8,9,2,1,5,7,2,6,7,3,4,5,8,9,1,9,8,1,6,2,7,5,4,3,5,4,3,9,8,1,2,7,6>>,
     <<4,7,5,2,3,1,6,8,9,2,3,1,6,8,9,4,7,5,6,8,9,4,7,5,2,3,1,7,5,4,1,6,2,8,9,3,8,6,3,9,4,7,5,1,2,1,9,2,3,5,8,7,4,6,5,4,6,7,1,3,9,2,8,3,2,7,8,9,6,1,5,4,9,1,8,5,2,4,3,6,7>>,
     <<7,5,2,8,4,3,9,1,6,8,4,3,9,1,6,7,5,2,9,1,6,7,5,2,8,4,3,5,2,7,3,9,8,1,6,4,1,9,4,6,7,5,2,3,8,3,6,8,4,2,1,5,7,9,2,7,9,5,3,4,6,8,1,4,8,5,1,6,9,3,2,7,6,3,1,2,8,7,4,9,5>>,
     <<4,7,8,6,2,3,1,9,5,6,2,3,1,9,5,4,7,8,1,9,5,4,7,8,6,2,3,7,8,4,3,1,6,9,5,2,9,1,2,5,4,7,8,3,6,3,5,6,2,8,9,7,4,1,8,4,1,7,3,2,5,6,9,2,6,7,9,5,1,3,8,4,5,3,9,8,6,4,2,1,7>>,
     <<2,6,8,7,9,4,3,5,1,1,3,5,2,6,8,9,4,7,7,4,9,5,1,3,6,2,8,9,1,6,3,5,7,4,8,2,4,8,3,6,2,1,5,7,9,5,2,7,8,4,9,1,6,3,3,7,1,4,8,6,2,9,5,8,5,4,9,3,2,7,1,6,6,9,2,1,7,5,8,3,4>>,
     <<3,9,2,4,8,1,7,5,6,5,4,1,2,7,6,3,9,8,6,8,7,9,3,5,2,1,4,8,7,5,3,2,4,9,6,1,2,3,4,1,6,9,8,7,5,1,6,9,7,5,8,4,3,2,4,1,8,6,9,7,5,2,3,7,2,6,5,4,3,1,8,9,9,5,3,8,1,2,6,4,7>>,
     <<4,8,9,7,2,6,1,5,3,2,1,7,5,3,9,4,6,8,6,3,5,8,4,1,9,7,2,1,6,2,9,8,7,5,3,4,5,7,3,4,1,2,6,8,9,9,4,8,3,6,5,7,2,1,7,9,4,2,5,8,3,1,6,3,2,1,6,7,4,8,9,5,8,5,6,1,9,3,2,4,7>> >>

BlankBoard == [cells |-> [i \in Cells |-> 0], candidates |-> [i \in Cells |-> {}]]

\* a mutation of ResultGrid: the grid of the argument is returned
ResultGrid_initial(b, initial_board) == initial_board

\* Board { cells: board.cells }: the grid solve_with_steps returns next to
\* the step list (initial_board is the argument of the call)
ResultGrid(b, initial_board) == [k \in 1..81 |-> b.cells[k - 1]]

NoCall ==
  [op |-> "none", index |-> 0, value |-> 0, ret |-> TRUE, before |-> BlankBoard]

\* LogicalBoard { cells: [0; 81], candidates: [0; 81] } with
\* candidates[0..=2] = {1,2,3,9}, candidates[3..=8] = {4,5,6,7,8} and
\* candidates[9..=80] = ALL_CANDIDATES
HiddenTripleBoard ==
  [cells |-> [i \in Cells |-> 0],
   candidates |-> [i \in Cells |->
      IF i <= 2 THEN {1, 2, 3, 9}
      ELSE IF i <= 8 THEN {4, 5, 6, 7, 8}
      ELSE 1..9]]

\* a board written the same way: cells 0 and 40 hold {1, 2} and do not see
\* each other, cell 4 sees both and holds {1, 2, 3}, and in column 8 both
\* digits have exactly the two places 8 and 44, one in the row of cell 0 and
\* one in the row of cell 40; nothing else has candidates
WWingBoard ==
  [cells |-> [i \in Cells |-> 0],
   candidates |-> [i \in Cells |->
      IF i \in {0, 40, 8, 44} THEN {1, 2}
      ELSE IF i = 4 THEN {1, 2, 3}
      ELSE {}]]

\* the boards a caller writes by hand
HandBoards == <<BlankBoard, HiddenTripleBoard, WWingBoard>>

(***************************************************************************)
(* State machine                                                           *)
(***************************************************************************)
Init ==
  /\ gid \in 1..NumGrids
  /\ input = Grids[gid]
  /\ PEER_MAP \in PeerMaps
  /\ board = BlankBoard
  /\ steps = <<>>
  /\ pc = "start"
  /\ phase = "first"
  /\ prevSteps = <<>>
  /\ prevBoard = BlankBoard
  /\ call = NoCall
  /\ ops = 0
  /\ stats = NoStats

\* solve_with_steps, line 206: LogicalBoard::from_board(initial_board)
Construct ==
  /\ pc = "start"
  /\ board' = from_board(input)
  /\ pc' = "loop"
  /\ UNCHANGED <<steps, input, gid, PEER_MAP, phase, prevSteps, prevBoard, call, ops, stats>>

\* one pass of the `loop` of solve_with_steps: the first finder of the chain
\* that returns a step has it applied and recorded; without progress the
\* loop breaks and the function returns
LoopPass ==
  /\ pc = "loop"
  /\ phase \notin {"direct", "literal"}
  /\ LET k == first_progress(board, 1)
     IN IF k = 0
        THEN /\ pc' = "done"
             /\ UNCHANGED <<board, steps>>
        ELSE LET step == Finder(k, board)
             IN /\ board' = apply_step(board, step)
                /\ steps' = Append(steps, step)
                /\ pc' = "loop"
  /\ UNCHANGED <<input, gid, PEER_MAP, phase, prevSteps, prevBoard, call, ops, stats>>

\* the caller hands the returned grid to solve_with_steps once more
SolveAgain ==
  /\ pc = "done"
  /\ phase = "first"
  /\ input' = ResultGrid(board, input)
  /\ phase' = "again"
  /\ prevSteps' = steps
  /\ prevBoard' = board
  /\ steps' = <<>>
  /\ board' = BlankBoard
  /\ pc' = "start"
  /\ stats' = NoStats
  /\ UNCHANGED <<gid, PEER_MAP, call, ops>>

\* the same grid is solved by another process, whose PEER_MAP is built anew
NewProcess ==
  /\ pc = "done"
  /\ phase = "first"
  /\ PEER_MAP' \in PeerMaps
  /\ phase' = "fresh"
  /\ prevSteps' = steps
  /\ prevBoard' = board
  /\ steps' = <<>>
  /\ board' = BlankBoard
  /\ pc' = "start"
  /\ stats' = NoStats
  /\ UNCHANGED <<input, gid, call, ops>>

Next == Construct \/ LoopPass \/ SolveAgain \/ NewProcess

Spec == Init /\ [][Next]_vars

\* The same machine explored over the sampled tables: the process starts
\* with, and a new process builds, one of SampledPeerMaps.
InitSampled == PEER_MAP \in SampledPeerMaps /\ Init

NewProcessSampled == PEER_MAP' \in SampledPeerMaps /\ NewProcess

NextSampled == Construct \/ LoopPass \/ SolveAgain \/ NewProcessSampled

SpecSampled == InitSampled /\ [][NextSampled]_vars

(***************************************************************************)
(* Direct use of the pub API, as tests/logical_solver.rs does: the caller  *)
(* builds the LogicalBoard with from_board or writes it as a struct        *)
(* literal, writes its pub fields cells and candidates, calls set_cell and *)
(* has the steps of single finders applied, in any order.                  *)
(***************************************************************************)
DirectUse ==
  /\ pc = "start"
  /\ phase = "first"
  /\ gid <= NumBoardGrids
  /\ board' = from_board(input)
  /\ phase' = "direct"
  /\ pc' = "loop"
  /\ UNCHANGED <<steps, input, gid, PEER_MAP, prevSteps, prevBoard, call, ops, stats>>

\* let mut board = LogicalBoard { cells: .., candidates: .. } followed by the
\* field writes of the caller's set-up; no function of the solver runs and
\* the grid plays no part, so the boards are written in one start state only
LiteralBoard(h) ==
  /\ pc = "start"
  /\ phase = "first"
  /\ gid = 1
  /\ board' = HandBoards[h]
  /\ phase' = "literal"
  /\ pc' = "loop"
  /\ UNCHANGED <<steps, input, gid, PEER_MAP, prevSteps, prevBoard, call, ops, stats>>

\* board.cells[index] = value
WriteCell(index, value) ==
  /\ pc = "loop"
  /\ phase \in {"direct", "literal"}
  /\ ops < MaxOps
  /\ board' = [board EXCEPT !.cells[index] = value]
  /\ call' = [op |-> "write_cell", index |-> index, value |-> value, ret |-> TRUE,
              before |-> board]
  /\ phase' = "literal"
  /\ ops' = ops + 1
  /\ UNCHANGED <<steps, pc, input, gid, PEER_MAP, prevSteps, prevBoard, stats>>

\* board.candidates[index] = mask
WriteCandidates(index, mask) ==
  /\ pc = "loop"
  /\ phase \in {"direct", "literal"}
  /\ ops < MaxOps
  /\ board' = [board EXCEPT !.candidates[index] = mask]
  /\ call' = [op |-> "write_candidates", index |-> index, value |-> 0, ret |-> TRUE,
              before |-> board]
  /\ phase' = "literal"
  /\ ops' = ops + 1
  /\ UNCHANGED <<steps, pc, input, gid, PEER_MAP, prevSteps, prevBoard, stats>>

\* board.set_cell(index, value)
SetCell(index, value) ==
  /\ pc = "loop"
  /\ phase \in {"direct", "literal"}
  /\ ops < MaxOps
  /\ LET r == set_cell(board, index, value)
     IN /\ board' = r.board
        /\ call' = [op |-> "set_cell", index |-> index, value |-> value, ret |-> r.ok,
                    before |-> board]
  /\ ops' = ops + 1
  /\ UNCHANGED <<steps, pc, input, gid, PEER_MAP, phase, prevSteps, prevBoard, stats>>

\* try_apply_step(&mut board, &mut steps, finder k)
CallFinder(k) ==
  /\ pc = "loop"
  /\ phase \in {"direct", "literal"}
  /\ ops < MaxOps
  /\ LET step == Finder(k, board)
     IN IF step = NoStep
        THEN UNCHANGED <<board, steps, ops, call>>
        ELSE /\ board' = apply_step(board, step)
             /\ steps' = Append(steps, step)
             /\ call' = [op |-> "finder", index |-> k, value |-> 0, ret |-> TRUE,
                         before |-> board]
             /\ ops' = ops + 1
  /\ UNCHANGED <<pc, input, gid, PEER_MAP, phase, prevSteps, prevBoard, stats>>

BoardUse ==
  \/ DirectUse
  \/ \E h \in 1..Len(HandBoards) : LiteralBoard(h)
  \/ \E w \in CellWrites : WriteCell(w[1], w[2])
  \/ \E w \in CandidateWrites : WriteCandidates(w[1], w[2])
  \/ \E c \in SetCalls : SetCell(c[1], c[2])
  \/ \E k \in 1..NumFinders : CallFinder(k)

NextBoard == Next \/ BoardUse

SpecBoard == Init /\ [][NextBoard]_vars

NextBoardSampled == NextSampled \/ BoardUse

SpecBoardSampled == InitSampled /\ [][NextBoardSampled]_vars

(***************************************************************************)
(* analyze_difficulty applied to the step list of a finished run (as       *)
(* generate.rs does) and to step lists a caller writes by hand (as the     *)
(* tests do), unrecognized technique names included.                       *)
(***************************************************************************)
MaxSteps == 3  \* length of a hand-written step list

SampleTechniques ==
  {"HiddenSingle", "NakedPair", "XY-Wing", "Jellyfish", "UnknownTechnique"}

ListStep(technique) ==
  /\ pc \in {"start", "list"}
  /\ phase = "first"
  /\ Len(steps) < MaxSteps
  /\ steps' = Append(steps, SolvingStep(technique, <<>>, <<>>, <<>>))
  /\ pc' = "list"
  /\ stats' = NoStats
  /\ UNCHANGED <<board, input, gid, PEER_MAP, phase, prevSteps, prevBoard, call, ops>>

Analyze ==
  /\ pc \in {"done", "list"}
  /\ stats' = analyze_difficulty(steps)
  /\ UNCHANGED <<board, steps, pc, input, gid, PEER_MAP, phase, prevSteps, prevBoard,
                 call, ops>>

DifficultyUse ==
  \/ \E technique \in SampleTechniques : ListStep(technique)
  \/ Analyze

NextDifficulty == Next \/ DifficultyUse

SpecDifficulty == Init /\ [][NextDifficulty]_vars

NextDifficultySampled == NextSampled \/ DifficultyUse

SpecDifficultySampled == InitSampled /\ [][NextDifficultySampled]_vars

(***************************************************************************)
(* solve_with_steps on any grid: the caller overwrites one cell of the      *)
(* puzzle, so that the grid may hold the same digit twice in a unit, and    *)
(* hands it to solve_with_steps.                                            *)
(***************************************************************************)
ConstructEdited(index, value) ==
  /\ pc = "start"
  /\ phase = "first"
  /\ gid <= NumBoardGrids
  /\ input' = [input EXCEPT ![index + 1] = value]
  /\ board' = from_board(input')
  /\ phase' = "edited"
  /\ pc' = "loop"
  /\ UNCHANGED <<steps, gid, PEER_MAP, prevSteps, prevBoard, call, ops, stats>>

GridsUse == \E index \in SampleCells, value \in SampleDigits : ConstructEdited(index, value)

NextGrids == Next \/ GridsUse

SpecGrids == Init /\ [][NextGrids]_vars

NextGridsSampled == NextSampled \/ GridsUse

SpecGridsSampled == InitSampled /\ [][NextGridsSampled]_vars

(***************************************************************************)
(* Properties                                                              *)
(***************************************************************************)
Built == pc \in {"loop", "done"}

\* two different cells that share a row, a column or a box
IsPeer(i, j) ==
  /\ i # j
  /\ \/ i \div 9 = j \div 9
     \/ i % 9 = j % 9
     \/ (i \div 27 = j \div 27 /\ (i % 9) \div 3 = (j % 9) \div 3)

Techniques(ss) == {ss[k].technique : k \in 1..Len(ss)}

EmptyCells(b) == {i \in Cells : b.cells[i] = 0}

\* C1: on a grid with exactly one solution S no recorded elimination (i, d)
\* has d = S[i], and every still-empty cell i of every board of the run keeps
\* S[i] among its candidates.
C1_Soundness ==
  (Built /\ phase # "direct") =>
    LET S == Solutions[gid]
    IN /\ \A k \in 1..Len(steps) : \A e \in 1..Len(steps[k].eliminations) :
            steps[k].eliminations[e].value # S[steps[k].eliminations[e].index + 1]
       /\ \A i \in Cells : board.cells[i] = 0 => S[i + 1] \in board.candidates[i]

\* a finished first run that used at least ten different techniques, a
\* unique rectangle among them, every one with eliminations on record
C1_Witness ==
  /\ pc = "done"
  /\ phase = "first"
  /\ Cardinality(Techniques(steps)) >= 10
  /\ \E k \in 1..Len(steps) : steps[k].technique = "UniqueRectangleType1"
                                /\ steps[k].eliminations # <<>>

\* a write of the caller through a pub field of the board
FieldWrite == ops' = ops + 1 /\ call'.op \in {"write_cell", "write_candidates"}

\* C2: across every step applied by solve_with_steps and across every
\* set_cell call and every applied step on any LogicalBoard, candidate sets
\* only shrink and a cell value changes only from 0 to a digit: a filled cell
\* keeps its digit.
C2_Monotone ==
  [][(pc = "loop" /\ pc' \in {"loop", "done"} /\ ~FieldWrite) =>
       \A i \in Cells :
         /\ board'.candidates[i] \subseteq board.candidates[i]
         /\ board.cells[i] # 0 => board'.cells[i] = board.cells[i]
         /\ board.cells[i] = 0 => board'.cells[i] \in 0..9]_vars

\* a board the caller has written a field of, on which a finder step has
\* then been applied and a set_cell has at last filled a cell and taken the
\* digit from a peer that held it
C2_Witness ==
  /\ phase = "literal"
  /\ Len(steps) >= 1
  /\ call.op = "set_cell"
  /\ call.ret = TRUE
  /\ board.cells[call.index] = call.value
  /\ \E p \in Cells : /\ IsPeer(call.index, p)
                      /\ call.value \in call.before.candidates[p]
                      /\ call.value \notin board.candidates[p]

\* C3, as stated: a second call of solve_with_steps on the grid returned by
\* the first call records no step.
C3_Idempotent ==
  (phase = "again" /\ pc = "done") => steps = <<>>

\* C3, amended: when the first call returned a grid without empty cells, the
\* second call on that grid records no step.
C3_IdempotentWhenSolved ==
  (phase = "again" /\ pc = "done" /\ EmptyCells(prevBoard) = {}) => steps = <<>>

\* the second call has returned, the first call had filled every cell with
\* a non-trivial step list
C3_Witness ==
  /\ phase = "again"
  /\ pc = "done"
  /\ EmptyCells(prevBoard) = {}
  /\ Len(prevSteps) >= 20

\* C4: two runs on the same input grid return the same step sequence, also
\* when the processes enumerate the peer lists of PEER_MAP in different
\* orders.
C4_Deterministic ==
  (phase = "fresh" /\ pc = "done") => steps = prevSteps

\* the finders in the order the claim C5 lists them
C5_Order(k, b) ==
  CASE k = 1 -> find_naked_single(b)
    [] k = 2 -> find_hidden_single(b)
    [] k = 3 -> find_naked_pair(b)
    [] k = 4 -> find_naked_triple(b)
    [] k = 5 -> find_pointing_subset(b)
    [] k = 6 -> find_hidden_pair(b)
    [] k = 7 -> find_hidden_triple(b)
    [] k = 8 -> find_claiming_candidates(b)
    [] k = 9 -> find_fish_techniques(b)
    [] k = 10 -> find_xy_wing(b)
    [] k = 11 -> find_xyz_wing(b)
    [] k = 12 -> find_skyscraper(b)
    [] k = 13 -> find_two_string_kite(b)
    [] k = 14 -> find_unique_rectangle_type_1(b)
    [] k = 15 -> find_w_wing(b)

\* C5: every recorded step is the result, on the board just before it, of
\* the first finder that returns a step there, in the order naked single,
\* hidden single, naked pair, naked triple, pointing subset, hidden pair,
\* hidden triple, claiming, fish, XY-Wing, XYZ-Wing, skyscraper, two-string
\* kite, unique rectangle type 1, W-Wing; all earlier finders return none on
\* that board; the step is applied and the next pass scans from naked single
\* again.
C5_FirstFinderWins ==
  [][(pc = "loop" /\ phase # "direct" /\ steps' # steps) =>
       \E k \in 1..15 :
         /\ \A j \in 1..(k - 1) : C5_Order(j, board) = NoStep
         /\ C5_Order(k, board) # NoStep
         /\ steps' = Append(steps, C5_Order(k, board))
         /\ board' = apply_step(board, C5_Order(k, board))
         /\ pc' = "loop"]_vars

\* a step of the last finder of the chain is on record and the step
\* recorded right after it comes from one of the first two finders
C5_Witness ==
  /\ pc = "loop"
  /\ phase = "first"
  /\ Len(steps) >= 2
  /\ steps[Len(steps) - 1].technique = "W-Wing"
  /\ steps[Len(steps)].technique \in {"NakedSingle", "HiddenSingle"}

\* C6: when a step of level L is recorded, no finder has, on the board just
\* before it, a result of a technique of a level strictly below L.
C6_DifficultyAscending ==
  [][(pc = "loop" /\ phase # "direct" /\ Len(steps') = Len(steps) + 1) =>
       LET L == technique_level(steps'[Len(steps')].technique)
       IN L > LevelBasic =>
            \A k \in 1..NumFinders :
              Finder(k, board) # NoStep =>
                technique_level(Finder(k, board).technique) >= L]_vars

\* C7: solve_with_steps returns only at a fixpoint: on the final board every
\* one of the 15 finders returns none.
C7_ReturnsAtFixpoint ==
  (pc = "done" /\ phase # "direct") =>
    \A k \in 1..NumFinders : Finder(k, board) = NoStep

\* a call has returned with steps on record and empty cells left
C7_Witness ==
  /\ pc = "done"
  /\ phase = "first"
  /\ steps # <<>>
  /\ EmptyCells(board) # {}

\* C8: in the board built by from_board and in every board reached by
\* set_cell calls and applied steps, a filled cell has no candidates.
C8_FilledHasNoCandidates ==
  (Built /\ phase # "literal") =>
    \A i \in Cells : board.cells[i] # 0 => board.candidates[i] = {}

\* on a board built by from_board a set_cell has just filled a cell that
\* was empty and had candidates, after a finder step had been applied
C8_Witness ==
  /\ phase = "direct"
  /\ Len(steps) >= 1
  /\ call.op = "set_cell"
  /\ call.ret = TRUE
  /\ input[call.index + 1] = 0
  /\ call.before.candidates[call.index] # {}
  /\ board.cells[call.index] = call.value

\* C9: on any board, built by from_board or written by hand, a step that
\* one of the 15 finders returns has a placement or an elimination, and
\* applying it changes the board: a cell gets filled or a candidate bit that
\* was set is cleared.
C9_StepHasEffect ==
  Built =>
    \A k \in 1..NumFinders :
      \A step \in {Finder(k, board)} :
        step # NoStep =>
          /\ step.placements # <<>> \/ step.eliminations # <<>>
          /\ \A after \in {apply_step(board, step)} :
               \E i \in Cells :
                 \/ board.cells[i] = 0 /\ after.cells[i] # 0
                 \/ (after.candidates[i] \subseteq board.candidates[i]
                       /\ after.candidates[i] # board.candidates[i])

\* on a board written by hand, where the first three cells of row 0 hold
\* {1, 2, 3, 9} and digit 9 has places all over the board, find_hidden_triple
\* returns a step that takes 9 from the three cells, and the naked triple
\* the other six cells of the row form changes nothing and is not reported
C9_Witness ==
  /\ phase = "literal"
  /\ board = HiddenTripleBoard
  /\ find_hidden_triple(board) # NoStep
  /\ Len(find_hidden_triple(board).eliminations) = 3
  /\ find_naked_triple(board) = NoStep

\* C10: set_cell on a filled cell returns false and leaves the whole board
\* (cell values and candidate sets) unchanged.
C10_SetCellOnFilled ==
  [][(call'.op = "set_cell" /\ ops' = ops + 1 /\ board.cells[call'.index] # 0) =>
       (call'.ret = FALSE /\ board' = board)]_vars

\* a set_cell has just been refused on a filled cell with a digit other
\* than the one the cell holds, and empty peers of the cell hold that digit
C10_Witness ==
  /\ call.op = "set_cell"
  /\ call.ret = FALSE
  /\ board.cells[call.index] # 0
  /\ board.cells[call.index] # call.value
  /\ \E p \in Cells : /\ IsPeer(call.index, p)
                      /\ board.cells[p] = 0
                      /\ call.value \in board.candidates[p]

\* the level of the k-th step of a list, as the match of analyze_difficulty
\* classifies its technique name
LevelOf(step_list, k) == technique_level(step_list[k].technique)

\* C11: analyze_difficulty returns max_level equal to the maximum of the
\* levels of the steps (None for the empty list) and the three counters equal
\* to the numbers of steps classified exactly Intermediate, Advanced and
\* Master; an unrecognized technique name classifies as None, does not raise
\* max_level and is counted nowhere, and Basic steps are counted nowhere.
C11_DifficultyStats ==
  stats # NoStats =>
    LET n == Len(steps)
        named(names) == {k \in 1..n : steps[k].technique \in names}
        intermediate == named({"PointingPair", "PointingTriple", "NakedPair",
                               "NakedTriple", "HiddenPair", "HiddenTriple",
                               "ClaimingCandidate"})
        advanced == named({"X-Wing", "Swordfish", "XY-Wing", "XYZ-Wing", "Skyscraper",
                           "TwoStringKite"})
        master == named({"Jellyfish", "UniqueRectangleType1", "W-Wing"})
        basic == named({"NakedSingle", "HiddenSingle"})
    IN /\ stats.max_level = (IF master # {} THEN LevelMaster
                             ELSE IF advanced # {} THEN LevelAdvanced
                             ELSE IF intermediate # {} THEN LevelIntermediate
                             ELSE IF basic # {} THEN LevelBasic
                             ELSE LevelNone)
       /\ \A k \in 1..n : LevelOf(steps, k) <= stats.max_level
       /\ stats.intermediate_count = Cardinality(intermediate)
       /\ stats.advanced_count = Cardinality(advanced)
       /\ stats.master_count = Cardinality(master)
       /\ LevelNone < LevelBasic /\ LevelBasic < LevelIntermediate
       /\ LevelIntermediate < LevelAdvanced /\ LevelAdvanced < LevelMaster

\* a list with an unrecognized name after a higher-level step and a Basic
\* step has been analysed: three steps, one counted
C11_Witness ==
  /\ stats # NoStats
  /\ Len(steps) = 3
  /\ steps[1].technique = "XY-Wing"
  /\ steps[2].technique = "UnknownTechnique"
  /\ steps[3].technique = "HiddenSingle"
  /\ stats.max_level = LevelAdvanced
  /\ stats.advanced_count = 1

\* the eliminations of a step as a set of (cell, digit) pairs
ElimSet(step) ==
  {<<step.eliminations[k].index, step.eliminations[k].value>> :
     k \in 1..Len(step.eliminations)}

\* the (p, d) for the empty peers p of cell i that hold d
PeerElims(b, i, d) ==
  {<<p, d>> : p \in {q \in Cells : IsPeer(i, q) /\ b.cells[q] = 0 /\ d \in b.candidates[q]}}

\* the empty cells with exactly one candidate
NakedSingles(b) == {i \in Cells : b.cells[i] = 0 /\ Cardinality(b.candidates[i]) = 1}

\* C12: find_naked_single returns none iff no empty cell has exactly one
\* candidate; otherwise a NakedSingle step for the lowest such cell i with
\* its candidate d: the one placement (i, d), and as eliminations exactly
\* the (p, d) of the empty peers p of i that hold d, each listed once.
C12_NakedSingle ==
  Built =>
    LET step == find_naked_single(board)
    IN IF NakedSingles(board) = {} THEN step = NoStep
       ELSE /\ step # NoStep
            /\ step.technique = "NakedSingle"
            /\ Len(step.placements) = 1
            /\ LET i == step.placements[1].index
                   d == step.placements[1].value
               IN /\ i \in NakedSingles(board)
                  /\ \A j \in NakedSingles(board) : i <= j
                  /\ board.candidates[i] = {d}
                  /\ ElimSet(step) = PeerElims(board, i, d)
                  /\ Len(step.eliminations) = Cardinality(PeerElims(board, i, d))
            /\ step.cause = <<>>

\* a board with several naked singles on which the step of the lowest one
\* has eliminations and an empty peer without the digit
C12_Witness ==
  /\ Built
  /\ Cardinality(NakedSingles(board)) >= 2
  /\ LET step == find_naked_single(board)
     IN /\ step # NoStep
        /\ Len(step.eliminations) >= 2
        /\ \E q \in Cells : /\ IsPeer(step.placements[1].index, q)
                            /\ board.cells[q] = 0
                            /\ step.placements[1].value \notin board.candidates[q]

\* the cells of unit u: rows 0-8 are units 0..8, columns 0-8 units 9..17,
\* boxes 0-8 units 18..26
UnitSets ==
  [u \in 0..26 |->
     IF u <= 8 THEN {i \in Cells : i \div 9 = u}
     ELSE IF u <= 17 THEN {i \in Cells : i % 9 = u - 9}
     ELSE {i \in Cells : (i \div 27) * 3 + (i % 9) \div 3 = u - 18}]

UnitCells(u) == UnitSets[u]

\* the empty cells of unit u that hold digit d
Holders(b, u, d) == {i \in UnitCells(u) : b.cells[i] = 0 /\ d \in b.candidates[i]}

\* the (unit, digit) pairs where the digit has exactly one place in the unit
HiddenSingles(b) ==
  {ud \in (0..26) \X Digits : Cardinality(Holders(b, ud[1], ud[2])) = 1}

\* C13: find_hidden_single returns none iff no digit has exactly one place in
\* any unit; otherwise, for the first such (unit, digit d) in the order rows,
\* columns, boxes and digits 1..9, with i the one cell, a HiddenSingle step
\* with the one placement (i, d) and as eliminations exactly the (p, d) of
\* the empty peers p of i holding d and the (i, e) of the other candidates e
\* of i, each listed once.
C13_HiddenSingle ==
  Built =>
    LET step == find_hidden_single(board)
        hs == HiddenSingles(board)
    IN IF hs = {} THEN step = NoStep
       ELSE /\ step # NoStep
            /\ step.technique = "HiddenSingle"
            /\ Len(step.placements) = 1
            /\ step.cause = <<>>
            /\ LET i == step.placements[1].index
                   d == step.placements[1].value
                   first == CHOOSE ud \in hs :
                              \A o \in hs : \/ ud[1] < o[1]
                                            \/ (ud[1] = o[1] /\ ud[2] <= o[2])
                   expected == PeerElims(board, i, d)
                                 \cup {<<i, e>> : e \in board.candidates[i] \ {d}}
               IN /\ d = first[2]
                  /\ Holders(board, first[1], d) = {i}
                  /\ ElimSet(step) = expected
                  /\ Len(step.eliminations) = Cardinality(expected)

\* the first hidden single sits in a column or a box (no row has one), its
\* cell has other candidates and an empty peer holds the digit
C13_Witness ==
  /\ Built
  /\ LET step == find_hidden_single(board)
     IN /\ step # NoStep
        /\ \A ud \in HiddenSingles(board) : ud[1] >= 9
        /\ Cardinality(board.candidates[step.placements[1].index]) >= 2
        /\ PeerElims(board, step.placements[1].index, step.placements[1].value) # {}

\* the cause cells of a step as a set
CauseSet(step) == {step.cause[k].index : k \in 1..Len(step.cause)}

\* the cells of unit u where one of the digits D has a place
Span(b, u, D) == UNION {Holders(b, u, d) : d \in D}

\* the hidden subsets of size k: a unit u and k digits, each with 2..k places
\* in u, whose places together are exactly k cells
HiddenMatches(b, k) ==
  UNION {
    LET eligible == {d \in Digits : /\ Cardinality(Holders(b, u, d)) >= 2
                                    /\ Cardinality(Holders(b, u, d)) <= k}
    IN {<<u, D>> : D \in {E \in SUBSET eligible :
                            Cardinality(E) = k /\ Cardinality(Span(b, u, E)) = k}}
    : u \in 0..26}

\* what a hidden subset removes: the other candidates of its cells
HiddenElims(b, m) ==
  UNION {{<<i, e>> : e \in b.candidates[i] \ m[2]} : i \in Span(b, m[1], m[2])}

\* the order of the search: units first, then digit combinations ascending
HiddenBefore(m, o) ==
  \/ m[1] < o[1]
  \/ /\ m[1] = o[1]
     /\ m[2] # o[2]
     /\ MinOf((m[2] \ o[2]) \cup (o[2] \ m[2])) \in m[2]

\* a step is the one of the first hidden subset of size k with eliminations
HiddenSubsetOk(b, step, k, name) ==
  LET productive == {m \in HiddenMatches(b, k) : HiddenElims(b, m) # {}}
  IN IF productive = {} THEN step = NoStep
     ELSE /\ step # NoStep
          /\ step.technique = name
          /\ step.placements = <<>>
          /\ \E m \in productive :
               /\ \A o \in productive : o = m \/ HiddenBefore(m, o)
               /\ CauseSet(step) = Span(b, m[1], m[2])
               /\ Len(step.cause) = k
               /\ ElimSet(step) = HiddenElims(b, m)
               /\ Len(step.eliminations) = Cardinality(HiddenElims(b, m))

\* C14: find_hidden_pair (k = 2) and find_hidden_triple (k = 3) return the
\* step of the first hidden subset of k digits (units in the order rows,
\* columns, boxes, digit combinations ascending) that has an elimination:
\* it removes exactly the other candidates of the k cells, lists exactly
\* the k cells as cause and is named HiddenPair or HiddenTriple; none is
\* returned when no hidden subset has an elimination.
C14_HiddenSubset ==
  Built => /\ HiddenSubsetOk(board, find_hidden_pair(board), 2, "HiddenPair")
           /\ HiddenSubsetOk(board, find_hidden_triple(board), 3, "HiddenTriple")

\* find_hidden_triple returns a step on a board that also has a hidden
\* triple without eliminations earlier in the search order; a digit of the
\* reported triple has only two places
C14_Witness ==
  /\ Built
  /\ find_hidden_triple(board) # NoStep
  /\ \E m \in HiddenMatches(board, 3) :
       /\ CauseSet(find_hidden_triple(board)) = Span(board, m[1], m[2])
       /\ HiddenElims(board, m) # {}
       /\ \E d \in m[2] : Cardinality(Holders(board, m[1], d)) = 2
       /\ \E o \in HiddenMatches(board, 3) : HiddenElims(board, o) = {} /\ HiddenBefore(o, m)

\* a grid in which two peers hold the same digit
HasConflict(grid) ==
  \E i, j \in Cells : IsPeer(i, j) /\ grid[i + 1] # 0 /\ grid[i + 1] = grid[j + 1]

\* C15: from_board copies the cell values and gives every filled cell the
\* empty candidate set and every empty cell exactly the digits 1..9 that no
\* filled peer holds; it does so for any grid, valid or not.
C15_FromBoard ==
  [][(pc = "start" /\ pc' \in {"loop", "done"}) =>
       \A i \in Cells :
         /\ board'.cells[i] = input'[i + 1]
         /\ input'[i + 1] # 0 => board'.candidates[i] = {}
         /\ input'[i + 1] = 0 =>
              board'.candidates[i] =
                {d \in 1..9 : \A p \in Cells :
                                IsPeer(i, p) => input'[p + 1] # d}]_vars

\* a board has been built from a grid with a conflict (a digit twice in a
\* row); an empty cell of it has lost candidates and kept others
C15_Witness ==
  /\ phase = "edited"
  /\ pc = "loop"
  /\ steps = <<>>
  /\ HasConflict(input)
  /\ input[1] = input[2]
  /\ \A i \in Cells : board.cells[i] = input[i + 1]
  /\ \E i \in Cells : /\ board.cells[i] = 0
                      /\ board.candidates[i] # {}
                      /\ board.candidates[i] # 1..9

\* C16: set_cell(i, d) on an empty cell returns true, sets cells[i] = d and
\* candidates[i] = 0, clears d in the candidate set of each of the 20 peers
\* of i and changes nothing else: no other cell value, no candidate set of a
\* cell that is not a peer, no other digit of a peer.
C16_SetCellFrame ==
  [][(call'.op = "set_cell" /\ ops' = ops + 1 /\ board.cells[call'.index] = 0) =>
       LET i == call'.index
           d == call'.value
       IN /\ call'.ret = TRUE
          /\ board'.cells[i] = d
          /\ board'.candidates[i] = {}
          /\ Cardinality({p \in Cells : IsPeer(i, p)}) = 20
          /\ \A p \in Cells \ {i} :
               /\ board'.cells[p] = board.cells[p]
               /\ board'.candidates[p] =
                    (IF IsPeer(i, p) THEN board.candidates[p] \ {d}
                     ELSE board.candidates[p])]_vars

\* a set_cell has filled an empty cell that had candidates: peers that
\* held the digit have lost it and keep other digits, one peer held the
\* digit next above it and still does, and cells that are no peers hold
\* the digit as before
C16_Witness ==
  /\ call.op = "set_cell"
  /\ call.ret = TRUE
  /\ call.before.cells[call.index] = 0
  /\ call.before.candidates[call.index] # {}
  /\ board.cells[call.index] = call.value
  /\ board.candidates[call.index] = {}
  /\ \E p \in Cells : /\ IsPeer(call.index, p)
                      /\ call.value \in call.before.candidates[p]
                      /\ call.value \notin board.candidates[p]
                      /\ board.candidates[p] # {}
  /\ \E p \in Cells : /\ IsPeer(call.index, p)
                      /\ call.value + 1 \in board.candidates[p]
  /\ \E q \in Cells : /\ ~IsPeer(call.index, q)
                      /\ q # call.index
                      /\ call.value \in call.before.candidates[q]
                      /\ call.value \in board.candidates[q]

\* ---- fish ----

\* the places of num in a line: columns of a row, or rows of a column
FishPlaces(b, num, is_row, line) ==
  {x \in 0..8 : HasCand(b, IF is_row THEN line * 9 + x ELSE x * 9 + line, num)}

FishCover(b, f) == UNION {FishPlaces(b, f[1], f[3], l) : l \in f[4]}

\* a fish <<num, k, is_row, base>>: k base lines of 2..k places each whose
\* places lie in at most k cover lines
FishesOf(b, num, k, is_row) ==
  LET eligible == {l \in 0..8 :
                     LET n == Cardinality(FishPlaces(b, num, is_row, l))
                     IN n >= 2 /\ n <= k}
  IN {<<num, k, is_row, base>> : base \in
        {s \in SUBSET eligible :
           /\ Cardinality(s) = k
           /\ Cardinality(UNION {FishPlaces(b, num, is_row, l) : l \in s}) <= k}}

FishCell(f, line, x) == IF f[3] THEN line * 9 + x ELSE x * 9 + line

FishElims(b, f) ==
  {<<FishCell(f, o, x), f[1]>> : <<o, x>> \in
     {p \in ((0..8) \ f[4]) \X FishCover(b, f) :
        HasCand(b, FishCell(f, p[1], p[2]), f[1])}}

FishCause(b, f) ==
  {FishCell(f, p[1], p[2]) : p \in
     {q \in f[4] \X FishCover(b, f) : HasCand(b, FishCell(f, q[1], q[2]), f[1])}}

ProductiveFish(b) ==
  {f \in UNION {FishesOf(b, num, k, is_row) :
                  <<num, k, is_row>> \in Digits \X (2..4) \X BOOLEAN} :
     FishElims(b, f) # {}}

FishName(k) == CASE k = 2 -> "X-Wing" [] k = 3 -> "Swordfish" [] k = 4 -> "Jellyfish"

FishMatches(b, step, f) ==
  /\ step.technique = FishName(f[2])
  /\ ElimSet(step) = FishElims(b, f)
  /\ Len(step.eliminations) = Cardinality(FishElims(b, f))
  /\ CauseSet(step) = FishCause(b, f)

\* base s comes before base t when combinations are listed in ascending order
ComboBefore(s, t) ==
  LET diff == (s \ t) \cup (t \ s)
  IN diff # {} /\ (CHOOSE x \in diff : \A y \in diff : x <= y) \in s

\* C17: find_fish_techniques returns a step exactly when some fish of size
\* 2, 3 or 4 (k base lines holding the digit in 2..k places each, at most k
\* cover lines in all) has an elimination; the step is named X-Wing,
\* Swordfish or Jellyfish by the size, places nothing, and eliminates the
\* digit from exactly the cells of the cover lines outside the base lines
\* that hold it; among the fish of one digit, size and orientation it is the
\* first combination in ascending order that has an elimination.
C17_Fish ==
  Built =>
    LET step == find_fish_techniques(board)
        productive == ProductiveFish(board)
    IN IF productive = {} THEN step = NoStep
       ELSE /\ step # NoStep
            /\ step.placements = <<>>
            /\ \E f \in productive :
                 /\ FishMatches(board, step, f)
                 /\ \A g \in productive :
                      (g[1] = f[1] /\ g[2] = f[2] /\ g[3] = f[3] /\ g # f)
                        => ComboBefore(f[4], g[4])

\* a Jellyfish is returned whose base lines do not all hold the digit in
\* four places, while an earlier fish of the board has no elimination
C17_Witness ==
  /\ Built
  /\ find_fish_techniques(board) # NoStep
  /\ find_fish_techniques(board).technique = "Jellyfish"
  /\ \E f \in ProductiveFish(board) :
       /\ FishMatches(board, find_fish_techniques(board), f)
       /\ \E l \in f[4] : Cardinality(FishPlaces(board, f[1], f[3], l)) < 4
       /\ \E k \in 2..4, is_row \in BOOLEAN, num \in 1..f[1] :
            \E g \in FishesOf(board, num, k, is_row) : FishElims(board, g) = {}

\* C18: the fish returned by find_fish_techniques is the first in the order
\* of the search: no fish with an elimination has a lower digit; none of the
\* same digit and size is row-based when the returned one is column-based;
\* none of the same digit and orientation is smaller.
C18_FishOrder ==
  Built =>
    LET step == find_fish_techniques(board)
        productive == ProductiveFish(board)
    IN step # NoStep =>
         \E f \in productive :
           /\ FishMatches(board, step, f)
           /\ \A g \in productive :
                /\ g[1] >= f[1]
                /\ ~(g[1] = f[1] /\ g[2] = f[2] /\ g[3] /\ ~f[3])
                /\ ~(g[1] = f[1] /\ g[3] = f[3] /\ g[2] < f[2])

\* a fish is returned while another fish with an elimination comes later in
\* the order: a higher digit, or the same digit column-based or larger
C18_Witness ==
  /\ Built
  /\ find_fish_techniques(board) # NoStep
  /\ \E f, g \in ProductiveFish(board) :
       /\ FishMatches(board, find_fish_techniques(board), f)
       /\ ~FishMatches(board, find_fish_techniques(board), g)
       /\ \/ g[1] > f[1]
          \/ g[1] = f[1] /\ g[2] = f[2] /\ f[3] /\ ~g[3]
          \/ g[1] = f[1] /\ g[3] = f[3] /\ g[2] > f[2]

\* ---- unique rectangle ----

URCorners(q) == {q[1] * 9 + q[3], q[1] * 9 + q[4], q[2] * 9 + q[3], q[2] * 9 + q[4]}

URBoxes(q) == {get_box_index(i) : i \in URCorners(q)}

\* rectangles <<r1, r2, c1, c2>> with the position of one corner
URRects ==
  {<<r[1], r[2], c[1], c[2], t>> : r \in {x \in (0..8) \X (0..8) : x[1] < x[2]},
                                  c \in {x \in (0..8) \X (0..8) : x[1] < x[2]},
                                  t \in 1..4}

URTarget(q) == <<q[1] * 9 + q[3], q[1] * 9 + q[4], q[2] * 9 + q[3], q[2] * 9 + q[4]>>[q[5]]

\* rectangles <<r1, r2, c1, c2, t>> with all corners empty, three corners
\* holding one pair P and the corner t a strict superset of P
URPatterns(b) ==
  {q \in {<<x[1], x[2], x[3], x[4], URTarget(x)>> : x \in URRects} :
     /\ \A i \in URCorners(q) : b.cells[i] = 0
     /\ LET rest == URCorners(q) \ {q[5]}
            P == b.candidates[CHOOSE i \in rest : TRUE]
        IN /\ Cardinality(P) = 2
           /\ \A i \in rest : b.candidates[i] = P
           /\ P \subseteq b.candidates[q[5]]
           /\ b.candidates[q[5]] # P}

URPair(b, q) == b.candidates[CHOOSE i \in URCorners(q) \ {q[5]} : TRUE]

\* C19: find_unique_rectangle_type_1 returns a step exactly when some
\* rectangle lying in exactly two boxes has four empty corners of which
\* three hold one pair P and the fourth a strict superset of P; the step
\* removes exactly the two digits of P from the fourth corner and names
\* the other three corners as cause; a rectangle in one box or in four
\* boxes is not reported.
C19_UniqueRectangle ==
  Built =>
    LET step == find_unique_rectangle_type_1(board)
        found == {q \in URPatterns(board) : Cardinality(URBoxes(q)) = 2}
    IN IF found = {} THEN step = NoStep
       ELSE /\ step # NoStep
            /\ step.technique = "UniqueRectangleType1"
            /\ step.placements = <<>>
            /\ \E q \in found :
                 /\ ElimSet(step) = {<<q[5], d>> : d \in URPair(board, q)}
                 /\ Len(step.eliminations) = 2
                 /\ CauseSet(step) = URCorners(q) \ {q[5]}
                 /\ Len(step.cause) = 3
                 /\ \A k \in 1..3 :
                      {step.cause[k].candidates[j] :
                        j \in 1..Len(step.cause[k].candidates)} = URPair(board, q)

\* a unique rectangle step is returned for a rectangle lying in two boxes
C19_Witness ==
  /\ Built
  /\ find_unique_rectangle_type_1(board) # NoStep
  /\ \E q \in URPatterns(board) :
       /\ Cardinality(URBoxes(q)) = 2
       /\ CauseSet(find_unique_rectangle_type_1(board)) = URCorners(q) \ {q[5]}

\* ---- XYZ-Wing ----

\* <<pivot, p1, p2>>: an empty pivot of three candidates and two distinct
\* empty peers of it with two candidates each, both inside the pivot's
\* candidates, whose union is the pivot's candidates and whose only common
\* digit is in all three cells
XYZWings(b) ==
  UNION {{<<pivot, p[1], p[2]>> : p \in
           {x \in PeerSet(pivot) \X PeerSet(pivot) :
              /\ x[1] < x[2]
              /\ \A k \in 1..2 :
                   /\ b.cells[x[k]] = 0
                   /\ Cardinality(b.candidates[x[k]]) = 2
                   /\ b.candidates[x[k]] \subseteq b.candidates[pivot]
              /\ b.candidates[x[1]] \cup b.candidates[x[2]] = b.candidates[pivot]
              /\ Cardinality(b.candidates[x[1]] \cap b.candidates[x[2]]
                               \cap b.candidates[pivot]) = 1}} :
         pivot \in {i \in Cells : b.cells[i] = 0 /\ Cardinality(b.candidates[i]) = 3}}

XYZDigit(b, w) == CHOOSE z \in b.candidates[w[2]] \cap b.candidates[w[3]] : TRUE

XYZElims(b, w) ==
  {<<t, XYZDigit(b, w)>> : t \in
     {c \in Cells : /\ HasCand(b, c, XYZDigit(b, w))
                    /\ IsPeer(c, w[1]) /\ IsPeer(c, w[2]) /\ IsPeer(c, w[3])}}

\* C20: find_xyz_wing returns a step exactly when some pivot of three
\* candidates has two peer pincers of two candidates each, subsets of the
\* pivot's candidates whose union is the pivot's set and that share one
\* digit z, with at least one empty cell holding z that sees the pivot and
\* both pincers; the step eliminates z from exactly those cells and names
\* the pivot and the two pincers, with their candidates, as cause.
C20_XYZWing ==
  Built =>
    LET step == find_xyz_wing(board)
        productive == {w \in XYZWings(board) : XYZElims(board, w) # {}}
    IN IF productive = {} THEN step = NoStep
       ELSE /\ step # NoStep
            /\ step.technique = "XYZ-Wing"
            /\ step.placements = <<>>
            /\ \E w \in productive :
                 /\ ElimSet(step) = XYZElims(board, w)
                 /\ Len(step.eliminations) = Cardinality(XYZElims(board, w))
                 /\ Len(step.cause) = 3
                 /\ step.cause[1].index = w[1]
                 /\ {step.cause[2].index, step.cause[3].index} = {w[2], w[3]}
                 /\ \A k \in 1..3 :
                      step.cause[k].candidates =
                        mask_to_vec(board.candidates[step.cause[k].index])

\* an XYZ-Wing step is returned while some peer of the pivot holding z is
\* not seen by both pincers and keeps it
C20_Witness ==
  /\ Built
  /\ find_xyz_wing(board) # NoStep
  /\ \E w \in XYZWings(board) :
       /\ ElimSet(find_xyz_wing(board)) = XYZElims(board, w)
       /\ find_xyz_wing(board).cause[1].index = w[1]
       /\ \E t \in PeerSet(w[1]) \ {w[2], w[3]} :
            /\ HasCand(board, t, XYZDigit(board, w))
            /\ <<t, XYZDigit(board, w)>> \notin XYZElims(board, w)

\* ---- W-Wing ----

\* <<X, Y, link, other, u>>: two empty cells that are not peers and hold the
\* same two candidates, and a unit u in which the link digit has exactly two
\* places, one a peer of X and the other a peer of Y
WWings(b) ==
  LET bivalue == {i \in Cells : b.cells[i] = 0 /\ Cardinality(b.candidates[i]) = 2}
      pairs == {p \in bivalue \X bivalue :
                  /\ p[1] < p[2]
                  /\ b.candidates[p[1]] = b.candidates[p[2]]
                  /\ ~IsPeer(p[1], p[2])}
  IN UNION {{<<p[1], p[2], l, CHOOSE o \in b.candidates[p[1]] : o # l, u>> :
               <<l, u>> \in {x \in b.candidates[p[1]] \X (0..26) :
                  LET h == Holders(b, x[2], x[1])
                  IN /\ Cardinality(h) = 2
                     /\ \E p1, p2 \in h :
                          p1 # p2 /\ IsPeer(p[1], p1) /\ IsPeer(p[2], p2)}} :
            p \in pairs}

WWingElims(b, w) ==
  {<<t, w[4]>> : t \in
     {c \in Cells : HasCand(b, c, w[4]) /\ IsPeer(c, w[1]) /\ IsPeer(c, w[2])}}

\* C21: find_w_wing returns a step exactly when two empty non-peer cells X, Y
\* with the same two candidates have a unit in which one of the two digits
\* (the link) has exactly two places, one a peer of X and the other a peer
\* of Y, neither being X or Y, and some empty cell seeing X and Y holds the
\* other digit; the step eliminates the other digit from exactly the cells
\* that see both X and Y and hold it, and names X, Y and the two link cells
\* as cause; of the two digits the lower is used as link when both serve.
C21_WWing ==
  Built =>
    LET step == find_w_wing(board)
        productive == {w \in WWings(board) : WWingElims(board, w) # {}}
    IN IF productive = {} THEN step = NoStep
       ELSE /\ step # NoStep
            /\ step.technique = "W-Wing"
            /\ step.placements = <<>>
            /\ Len(step.cause) = 4
            /\ \E w \in productive :
                 /\ step.cause[1] = CauseCell(w[1], <<w[3], w[4]>>)
                 /\ step.cause[2] = CauseCell(w[2], <<w[3], w[4]>>)
                 /\ {step.cause[3].index, step.cause[4].index}
                      = Holders(board, w[5], w[3])
                 /\ step.cause[3].index # step.cause[4].index
                 /\ {step.cause[3].index, step.cause[4].index} \cap {w[1], w[2]} = {}
                 /\ step.cause[3].candidates = <<w[3]>>
                 /\ step.cause[4].candidates = <<w[3]>>
                 /\ ElimSet(step) = WWingElims(board, w)
                 /\ Len(step.eliminations) = Cardinality(WWingElims(board, w))
                 /\ \A v \in productive :
                      (v[1] = w[1] /\ v[2] = w[2]) => v[3] >= w[3]

\* a W-Wing step is returned for two cells for which both digits serve as
\* link with eliminations, and the link of the step is the lower digit
C21_Witness ==
  /\ Built
  /\ find_w_wing(board) # NoStep
  /\ LET step == find_w_wing(board)
         productive == {w \in WWings(board) : WWingElims(board, w) # {}}
     IN \E v, w \in productive :
          /\ v[1] = w[1] /\ v[2] = w[2]
          /\ w[1] = step.cause[1].index /\ w[2] = step.cause[2].index
          /\ v[3] > w[3]
          /\ step.cause[1].candidates = <<w[3], w[4]>>
          /\ step.cause[3].candidates = <<w[3]>>
          /\ ElimSet(step) = WWingElims(board, w)
          /\ ElimSet(step) # WWingElims(board, v)

\* ---- XY-Wing ----

\* <<pivot, p1, p2, c>>: an empty pivot holding {a, b} and two distinct
\* empty peers of it holding {a, c} and {b, c}, c outside {a, b}
XYWings(b) ==
  UNION {{<<pivot, p[1], p[2], c>> : <<p, c>> \in
           {x \in (PeerSet(pivot) \X PeerSet(pivot)) \X (Digits \ b.candidates[pivot]) :
              /\ x[1][1] # x[1][2]
              /\ b.cells[x[1][1]] = 0 /\ b.cells[x[1][2]] = 0
              /\ b.candidates[x[1][1]] = {MinOf(b.candidates[pivot]), x[2]}
              /\ b.candidates[x[1][2]] = (b.candidates[pivot]
                                           \ {MinOf(b.candidates[pivot])}) \cup {x[2]}}} :
         pivot \in {i \in Cells : b.cells[i] = 0 /\ Cardinality(b.candidates[i]) = 2}}

XYWingElims(b, w) ==
  {<<t, w[4]>> : t \in
     {c \in Cells \ {w[1], w[2], w[3]} :
        HasCand(b, c, w[4]) /\ IsPeer(c, w[2]) /\ IsPeer(c, w[3])}}

\* C22: find_xy_wing returns a step exactly when some pivot holding exactly
\* {a, b} has two distinct peer pincers holding exactly {a, c} and {b, c},
\* c outside {a, b}, and some empty cell other than the three holds c and
\* sees both pincers; the step eliminates c from exactly those cells and
\* names the pivot and the two pincers, with their candidates, as cause.
C22_XYWing ==
  Built =>
    LET step == find_xy_wing(board)
        productive == {w \in XYWings(board) : XYWingElims(board, w) # {}}
    IN IF productive = {} THEN step = NoStep
       ELSE /\ step # NoStep
            /\ step.technique = "XY-Wing"
            /\ step.placements = <<>>
            /\ Len(step.cause) = 3
            /\ \E w \in productive :
                 /\ step.cause[1].index = w[1]
                 /\ {step.cause[2].index, step.cause[3].index} = {w[2], w[3]}
                 /\ \A k \in 1..3 :
                      step.cause[k].candidates =
                        mask_to_vec(board.candidates[step.cause[k].index])
                 /\ ElimSet(step) = XYWingElims(board, w)
                 /\ Len(step.eliminations) = Cardinality(XYWingElims(board, w))

\* an XY-Wing step is returned while some cell seen by one pincer only keeps
\* the digit c
C22_Witness ==
  /\ Built
  /\ find_xy_wing(board) # NoStep
  /\ \E w \in XYWings(board) :
       /\ find_xy_wing(board).cause[1].index = w[1]
       /\ ElimSet(find_xy_wing(board)) = XYWingElims(board, w)
       /\ \E t \in Cells \ {w[1], w[2], w[3]} :
            /\ HasCand(board, t, w[4])
            /\ IsPeer(t, w[2]) /\ ~IsPeer(t, w[3])

\* ---- naked subsets ----

\* <<u, S>>: k empty cells S of unit u with 2..k candidates each whose
\* candidates are k digits in all
NakedMatches(b, k) ==
  UNION {{<<u, S>> : S \in
           {T \in SUBSET {i \in UnitCells(u) :
                            /\ b.cells[i] = 0
                            /\ Cardinality(b.candidates[i]) >= 2
                            /\ Cardinality(b.candidates[i]) <= k} :
              /\ Cardinality(T) = k
              /\ Cardinality(UNION {b.candidates[i] : i \in T}) = k}} :
         u \in 0..26}

NakedElims(b, m) ==
  {<<p[1], p[2]>> : p \in
     {q \in (UnitCells(m[1]) \ m[2]) \X UNION {b.candidates[i] : i \in m[2]} :
        HasCand(b, q[1], q[2])}}

NakedSubsetOk(b, step, k, name) ==
  LET productive == {m \in NakedMatches(b, k) : NakedElims(b, m) # {}}
  IN IF productive = {} THEN step = NoStep
     ELSE /\ step # NoStep
          /\ step.technique = name
          /\ step.placements = <<>>
          /\ \E m \in productive :
               /\ \A o \in productive : o = m \/ HiddenBefore(m, o)
               /\ CauseSet(step) = m[2]
               /\ Len(step.cause) = k
               /\ ElimSet(step) = NakedElims(b, m)
               /\ Len(step.eliminations) = Cardinality(NakedElims(b, m))

\* C23: find_naked_pair (k = 2) and find_naked_triple (k = 3) return the
\* step of the first match (units in the order rows, columns, boxes; cell
\* combinations in unit-position order) that has an elimination, a match
\* being k empty cells of a unit with 2..k candidates each and k candidate
\* digits in all; the step removes exactly the digits of the union held by
\* the other empty cells of the unit, lists the k cells as cause and is
\* named NakedPair or NakedTriple; none is returned when no match has an
\* elimination.
C23_NakedSubset ==
  Built => /\ NakedSubsetOk(board, find_naked_pair(board), 2, "NakedPair")
           /\ NakedSubsetOk(board, find_naked_triple(board), 3, "NakedTriple")

\* find_naked_triple returns a step for three cells of which one has only
\* two candidates, on a board where an earlier match has no elimination
C23_Witness ==
  /\ Built
  /\ find_naked_triple(board) # NoStep
  /\ \E m \in NakedMatches(board, 3) :
       /\ CauseSet(find_naked_triple(board)) = m[2]
       /\ ElimSet(find_naked_triple(board)) = NakedElims(board, m)
       /\ \E i \in m[2] : Cardinality(board.candidates[i]) = 2
       /\ \E o \in NakedMatches(board, 3) :
            NakedElims(board, o) = {} /\ HiddenBefore(o, m)

\* ---- pointing and claiming ----

\* <<box, num, line>>: the digit has 2 or 3 places in the box, all in the
\* row or column that is unit line (0..8 rows, 9..17 columns)
PointingMatches(b) ==
  UNION {LET h == Holders(b, 18 + p[1], p[2])
         IN IF Cardinality(h) \in {2, 3}
            THEN {<<p[1], p[2], l>> : l \in {u \in 0..17 : h \subseteq UnitCells(u)}}
            ELSE {} :
         p \in (0..8) \X Digits}

PointingElims(b, m) ==
  {<<t, m[2]>> : t \in Holders(b, m[3], m[2]) \ UnitCells(18 + m[1])}

\* C24: find_pointing_subset returns the step of the first (box, digit), boxes
\* 0..8 and digits ascending, for which the digit has 2 or 3 places in the
\* box, all in one row or one column, and that line holds the digit outside
\* the box; the step removes the digit from exactly those cells of the line,
\* lists the box cells as cause and is named PointingPair or PointingTriple
\* by their number; none is returned when there is no such (box, digit).
C24_Pointing ==
  Built =>
    LET step == find_pointing_subset(board)
        productive == {m \in PointingMatches(board) : PointingElims(board, m) # {}}
    IN IF productive = {} THEN step = NoStep
       ELSE /\ step # NoStep
            /\ step.placements = <<>>
            /\ \E m \in productive :
                 /\ \A o \in productive :
                      o[1] > m[1] \/ (o[1] = m[1] /\ o[2] >= m[2])
                 /\ CauseSet(step) = Holders(board, 18 + m[1], m[2])
                 /\ Len(step.cause) = Cardinality(CauseSet(step))
                 /\ \A k \in 1..Len(step.cause) : step.cause[k].candidates = <<m[2]>>
                 /\ step.technique = IF Len(step.cause) = 2 THEN "PointingPair"
                                                            ELSE "PointingTriple"
                 /\ ElimSet(step) = PointingElims(board, m)
                 /\ Len(step.eliminations) = Cardinality(PointingElims(board, m))

\* a PointingTriple along a column is returned while an earlier (box, digit)
\* is aligned but has nothing to eliminate
C24_Witness ==
  /\ Built
  /\ find_pointing_subset(board) # NoStep
  /\ find_pointing_subset(board).technique = "PointingTriple"
  /\ \E m \in PointingMatches(board) :
       /\ m[3] >= 9
       /\ ElimSet(find_pointing_subset(board)) = PointingElims(board, m)
       /\ CauseSet(find_pointing_subset(board)) = Holders(board, 18 + m[1], m[2])
       /\ \E o \in PointingMatches(board) :
            /\ PointingElims(board, o) = {}
            /\ (o[1] < m[1] \/ (o[1] = m[1] /\ o[2] < m[2]))

\* <<line, num, box>>: the places of the digit in the line (0..8 rows, 9..17
\* columns), at least one, all lie in the box
ClaimingMatches(b) ==
  UNION {LET h == Holders(b, p[1], p[2])
         IN IF h # {}
            THEN {<<p[1], p[2], x>> : x \in {y \in 0..8 : h \subseteq UnitCells(18 + y)}}
            ELSE {} :
         p \in (0..17) \X Digits}

ClaimingElims(b, m) ==
  {<<t, m[2]>> : t \in Holders(b, 18 + m[3], m[2]) \ UnitCells(m[1])}

\* C25: find_claiming_candidates returns the step of the first (line, digit),
\* rows 0..8 then columns 0..8 and digits ascending, for which the places of
\* the digit in the line all lie in one box and the box holds the digit
\* outside the line; the ClaimingCandidate step removes the digit from
\* exactly those cells of the box and lists the line cells as cause; none is
\* returned when there is no such (line, digit).
C25_Claiming ==
  Built =>
    LET step == find_claiming_candidates(board)
        productive == {m \in ClaimingMatches(board) : ClaimingElims(board, m) # {}}
    IN IF productive = {} THEN step = NoStep
       ELSE /\ step # NoStep
            /\ step.technique = "ClaimingCandidate"
            /\ step.placements = <<>>
            /\ \E m \in productive :
                 /\ \A o \in productive :
                      o[1] > m[1] \/ (o[1] = m[1] /\ o[2] >= m[2])
                 /\ CauseSet(step) = Holders(board, m[1], m[2])
                 /\ Len(step.cause) = Cardinality(CauseSet(step))
                 /\ \A k \in 1..Len(step.cause) : step.cause[k].candidates = <<m[2]>>
                 /\ ElimSet(step) = ClaimingElims(board, m)
                 /\ Len(step.eliminations) = Cardinality(ClaimingElims(board, m))

\* a ClaimingCandidate step is returned for a column, no row having one,
\* while a row holds some digit in two boxes
C25_Witness ==
  /\ Built
  /\ find_claiming_candidates(board) # NoStep
  /\ \E m \in ClaimingMatches(board) :
       /\ m[1] >= 9
       /\ CauseSet(find_claiming_candidates(board)) = Holders(board, m[1], m[2])
       /\ ElimSet(find_claiming_candidates(board)) = ClaimingElims(board, m)
  /\ \E u \in 0..8, d \in Digits :
       Cardinality({get_box_index(i) : i \in Holders(board, u, d)}) = 2

\* ---- skyscraper and two-string kite ----

LineCell(is_row, line, x) == IF is_row THEN line * 9 + x ELSE x * 9 + line

\* [num, is_row, l1, l2, roof1, roof2, base1, base2]: two lines l1 < l2 with
\* exactly two places of num each, exactly one place in common; the roof
\* cells are the places not in common
Skyscrapers(b) ==
  UNION {LET two == {l \in 0..8 : Cardinality(FishPlaces(b, p[1], p[2], l)) = 2}
         IN {[num |-> p[1], is_row |-> p[2], l1 |-> q[1], l2 |-> q[2],
              roof1 |-> LineCell(p[2], q[1], MinOf(FishPlaces(b, p[1], p[2], q[1])
                                                     \ FishPlaces(b, p[1], p[2], q[2]))),
              roof2 |-> LineCell(p[2], q[2], MinOf(FishPlaces(b, p[1], p[2], q[2])
                                                     \ FishPlaces(b, p[1], p[2], q[1]))),
              base1 |-> LineCell(p[2], q[1], MinOf(FishPlaces(b, p[1], p[2], q[1])
                                                     \cap FishPlaces(b, p[1], p[2], q[2]))),
              base2 |-> LineCell(p[2], q[2], MinOf(FishPlaces(b, p[1], p[2], q[1])
                                                     \cap FishPlaces(b, p[1], p[2], q[2])))] :
             q \in {x \in two \X two :
                      /\ x[1] < x[2]
                      /\ Cardinality(FishPlaces(b, p[1], p[2], x[1])
                                       \cap FishPlaces(b, p[1], p[2], x[2])) = 1}} :
         p \in Digits \X BOOLEAN}

CommonPeerElims(b, c1, c2, num) ==
  {<<t, num>> : t \in {c \in Cells : HasCand(b, c, num) /\ IsPeer(c, c1) /\ IsPeer(c, c2)}}

\* C26: find_skyscraper returns a step exactly when for some digit two rows
\* (or two columns) with exactly two places each share exactly one column
\* (row) and some empty cell holding the digit sees both roof cells, the
\* places not shared; the step removes the digit from exactly the cells
\* that see both roof cells and names the roof cells and the shared-line
\* cells as cause; the digits are tried ascending and for each digit the
\* rows before the columns.
C26_Skyscraper ==
  Built =>
    LET step == find_skyscraper(board)
        productive == {m \in Skyscrapers(board) :
                         CommonPeerElims(board, m.roof1, m.roof2, m.num) # {}}
    IN IF productive = {} THEN step = NoStep
       ELSE /\ step # NoStep
            /\ step.technique = "Skyscraper"
            /\ step.placements = <<>>
            /\ \E m \in productive :
                 /\ step.cause = <<CauseCell(m.roof1, <<m.num>>), CauseCell(m.roof2, <<m.num>>),
                                   CauseCell(m.base1, <<m.num>>), CauseCell(m.base2, <<m.num>>)>>
                 /\ ElimSet(step) = CommonPeerElims(board, m.roof1, m.roof2, m.num)
                 /\ Len(step.eliminations) = Cardinality(ElimSet(step))
                 /\ \A o \in productive :
                      /\ o.num >= m.num
                      /\ ~(o.num = m.num /\ o.is_row /\ ~m.is_row)

\* a column-based skyscraper is returned while a higher digit has a
\* row-based one with an elimination
C26_Witness ==
  /\ Built
  /\ find_skyscraper(board) # NoStep
  /\ \E m, o \in Skyscrapers(board) :
       /\ ~m.is_row /\ o.is_row /\ o.num > m.num
       /\ find_skyscraper(board).cause[1].index = m.roof1
       /\ find_skyscraper(board).cause[2].index = m.roof2
       /\ ElimSet(find_skyscraper(board)) = CommonPeerElims(board, m.roof1, m.roof2, m.num)
       /\ CommonPeerElims(board, o.roof1, o.roof2, o.num) # {}

\* [num, rc, cc, other_rc, other_cc]: a row and a column with exactly two
\* places of num each, a row place rc and a column place cc that are
\* distinct cells of one box, and the other place of each line
Kites(b) ==
  UNION {LET rows2 == {r \in 0..8 : Cardinality(FishPlaces(b, num, TRUE, r)) = 2}
             cols2 == {c \in 0..8 : Cardinality(FishPlaces(b, num, FALSE, c)) = 2}
         IN UNION {LET row_cells == {LineCell(TRUE, l[1], x) :
                                       x \in FishPlaces(b, num, TRUE, l[1])}
                       col_cells == {LineCell(FALSE, l[2], y) :
                                       y \in FishPlaces(b, num, FALSE, l[2])}
                   IN {[num |-> num, rc |-> q[1], cc |-> q[2],
                        other_rc |-> CHOOSE x \in row_cells : x # q[1],
                        other_cc |-> CHOOSE y \in col_cells : y # q[2]] :
                       q \in {x \in row_cells \X col_cells :
                                x[1] # x[2] /\ get_box_index(x[1]) = get_box_index(x[2])}} :
                   l \in rows2 \X cols2} :
         num \in Digits}

\* C27: find_two_string_kite returns a step exactly when for some digit a
\* row and a column with exactly two places each have a row place and a
\* column place that are distinct cells of one box, and some empty cell
\* holding the digit sees both the other row place and the other column
\* place; the step removes the digit from exactly the cells that see both
\* and names the four places as cause.
C27_TwoStringKite ==
  Built =>
    LET step == find_two_string_kite(board)
        productive == {m \in Kites(board) :
                         CommonPeerElims(board, m.other_rc, m.other_cc, m.num) # {}}
    IN IF productive = {} THEN step = NoStep
       ELSE /\ step # NoStep
            /\ step.technique = "TwoStringKite"
            /\ step.placements = <<>>
            /\ \E m \in productive :
                 /\ step.cause = <<CauseCell(m.rc, <<m.num>>), CauseCell(m.cc, <<m.num>>),
                                   CauseCell(m.other_rc, <<m.num>>),
                                   CauseCell(m.other_cc, <<m.num>>)>>
                 /\ ElimSet(step) = CommonPeerElims(board, m.other_rc, m.other_cc, m.num)
                 /\ Len(step.eliminations) = Cardinality(ElimSet(step))

\* a kite step is returned whose four places are four different cells
C27_Witness ==
  /\ Built
  /\ find_two_string_kite(board) # NoStep
  /\ Cardinality(CauseSet(find_two_string_kite(board))) = 4
  /\ \E m \in Kites(board) :
       /\ find_two_string_kite(board).cause[1].index = m.rc
       /\ find_two_string_kite(board).cause[2].index = m.cc
       /\ ElimSet(find_two_string_kite(board))
            = CommonPeerElims(board, m.other_rc, m.other_cc, m.num)

\* ---- termination ----

\* number of empty cells plus number of candidates over all cells
Measure(b) ==
  Cardinality({i \in Cells : b.cells[i] = 0})
    + Cardinality({p \in Cells \X Digits : p[2] \in b.candidates[p[1]]})

\* C28: on every grid, grids holding a digit twice in a unit included, each
\* step that solve_with_steps applies strictly decreases the number of
\* empty cells plus the number of candidates, and the number of steps
\* recorded plus that measure never exceeds 810: the loop cannot go on for
\* ever and the step list has at most 810 entries.
C28_Termination ==
  [][/\ (pc = "loop" /\ steps' # steps) =>
          (Len(steps') = Len(steps) + 1 /\ Measure(board') < Measure(board))
     /\ pc' \in {"loop", "done"} =>
          Len(steps') + Measure(board') <= 81 + 81 * 9]_vars

\* solve_with_steps has returned with steps recorded on a grid that holds a
\* digit twice in a unit
C28_Witness ==
  /\ pc = "done"
  /\ phase = "edited"
  /\ HasConflict(input)
  /\ Len(steps) > 0

\* ---- placements ----

\* C29: on a puzzle with exactly one solution S every step that
\* solve_with_steps records places at most one digit, on a cell that is empty
\* and holds the digit as candidate, the digit being the one S has there, so
\* that set_cell returns true; the board agrees with the input on every
\* given and with S on every filled cell.
C29_Placements ==
  [][/\ (pc = "loop" /\ phase # "direct" /\ steps' # steps) =>
          LET step == steps'[Len(steps')]
          IN /\ Len(step.placements) <= 1
             /\ \A k \in 1..Len(step.placements) :
                  LET i == step.placements[k].index
                      d == step.placements[k].value
                  IN /\ board.cells[i] = 0
                     /\ d \in board.candidates[i]
                     /\ d = Solutions[gid][i + 1]
                     /\ set_cell(board, i, d).ok
                     /\ board'.cells[i] = d
     /\ (pc' \in {"loop", "done"} /\ phase' # "direct") =>
          \A i \in Cells :
            /\ input'[i + 1] # 0 => board'.cells[i] = input'[i + 1]
            /\ board'.cells[i] # 0 => board'.cells[i] = Solutions[gid][i + 1]]_vars

\* a hidden single has just been placed on a cell that held other candidates
\* as well, and the digit is the solution's
C29_Witness ==
  /\ pc = "loop"
  /\ phase = "first"
  /\ steps # <<>>
  /\ LET step == steps[Len(steps)]
     IN /\ step.technique = "HiddenSingle"
        /\ Len(step.placements) = 1
        /\ \E e \in 1..Len(step.eliminations) :
             step.eliminations[e].index = step.placements[1].index
        /\ board.cells[step.placements[1].index] = step.placements[1].value
        /\ step.placements[1].value = Solutions[gid][step.placements[1].index + 1]

\* ---- technique names ----

EmittedNames ==
  {"NakedSingle", "HiddenSingle", "NakedPair", "NakedTriple", "PointingPair",
   "PointingTriple", "HiddenPair", "HiddenTriple", "ClaimingCandidate", "X-Wing",
   "Swordfish", "Jellyfish", "XY-Wing", "XYZ-Wing", "Skyscraper", "TwoStringKite",
   "UniqueRectangleType1", "W-Wing"}

\* C30: the finders emit only the eighteen technique names, each of them is
\* classified Basic or higher, and once the step list of a solve_with_steps
\* run has been analysed max_level is None iff the list is empty.
C30_NamesClassified ==
  /\ \A name \in EmittedNames : technique_level(name) >= LevelBasic
  /\ Built =>
       \A k \in 1..NumFinders :
         Finder(k, board) # NoStep =>
           /\ Finder(k, board).technique \in EmittedNames
           /\ technique_level(Finder(k, board).technique) >= LevelBasic
  /\ (pc = "done" /\ stats # NoStats) =>
       /\ stats = analyze_difficulty(steps)
       /\ (stats.max_level = LevelNone) <=> (steps = <<>>)

\* the step lists of two runs have been analysed, the first with steps and a
\* level, the rerun on its result grid with no step and level None
C30_Witness ==
  /\ pc = "done"
  /\ phase = "again"
  /\ steps = <<>>
  /\ prevSteps # <<>>
  /\ stats # NoStats
  /\ stats.max_level = LevelNone
  /\ analyze_difficulty(prevSteps).max_level >= LevelBasic
  /\ \E k \in 1..NumFinders : Finder(k, prevBoard) = NoStep

====
